---- MODULE Spec2Model ----
(***************************************************************************)
(* Model of the cleaning pipeline of src/src/clean_data.py: the four       *)
(* per-source parsers (clean_cpi_data, clean_energy_data,                  *)
(* clean_labor_data, clean_news_data) and merge_all_data.                  *)
(*                                                                         *)
(* Conventions                                                             *)
(*   - a calendar month is the integer year * 12 + (month - 1);            *)
(*   - a cell value is an exact rational <<n, d>> in lowest terms with     *)
(*     d > 0; the missing value (NaN / NaT) is <<0, 0>>;                   *)
(*   - a DataFrame is [kind, cols, rows]: cols the set of column names,    *)
(*     rows the sequence of [date, v] with v a function cols -> value;     *)
(*   - a function of the program returns [kind |-> "None"], a DataFrame,   *)
(*     or [kind |-> "Raise"] when an exception leaves it.                  *)
(***************************************************************************)
EXTENDS Integers, Sequences, FiniteSets, TLC

VARIABLES
    cpiFile,      \* data/raw/source_a_cpi_detailed_raw.json
    energyFiles,  \* data/raw/source_b_energy_*_raw.json, by measure
    laborFiles,   \* data/raw/source_c_unemployment_*_raw.csv, by measure
    newsFiles,    \* data/raw/source_d_*.json and the .zip archive
    fillPad,      \* whether Series.pct_change forward-fills (pandas < 3)
    newsOps,      \* the file-system calls clean_news_data has made, in order
    pc,           \* position of merge_all_data / the __main__ run
    df1, df2, df3, df4,   \* the parsers' return values
    joinedDf,     \* final_df after the window slice, before interpolation
    finalDf,      \* final_df after interpolation
    written,      \* files written to data/processed by this run
    outcome,      \* how the run ended
    \* run_analysis.py
    adf,          \* the DataFrame load_data returned
    apc,          \* position of the __main__ run of run_analysis.py
    statsCols,    \* the columns analyze_basic_stats described
    supplyPairs,  \* per lag, the observations analyze_supply_chain_impact correlated
    causalPairs,  \* per link and lag, those analyze_causal_chain correlated
    \* get_data.py, get_source_d_sentiment
    api_key,      \* the key the function is called with
    now,          \* datetime.datetime.now(): [year, month]
    fpc,          \* position of get_source_d_sentiment
    fyear, fmonth,    \* the loop variables year and month
    all_articles, \* len(all_articles)
    retries,      \* 429 answers the current month has had
    lastReq,      \* [month, status] of the last request made
    nytFile,      \* source_d_nyt_text_raw.json: whether written, and with how many articles
    fexit,        \* the exit get_source_d_sentiment took
    \* get_data.py, get_source_d_sentiment_recent
    start_date, end_date,   \* strptime of start_str and end_str, as day numbers
    current_date, \* the first day of the batch at hand
    page,         \* the loop variable page
    rpc,          \* position of get_source_d_sentiment_recent
    batches,      \* per batch made: d_start, d_end, the pages requested, how page 0 ended
    page_retries, \* 429 answers the current page has had
    recent_articles,  \* len(all_articles)
    recentFile    \* source_d_nyt_recent_raw.json

cleanVars == <<cpiFile, energyFiles, laborFiles, newsFiles, fillPad, newsOps, pc,
               df1, df2, df3, df4, joinedDf, finalDf, written, outcome>>

analysisVars == <<adf, apc, statsCols, supplyPairs, causalPairs>>

fetchVars == <<api_key, now, fpc, fyear, fmonth, all_articles, retries, lastReq, nytFile, fexit>>

recentVars == <<start_date, end_date, current_date, page, rpc, batches, page_retries,
                recent_articles, recentFile>>

vars == <<cleanVars, analysisVars, fetchVars, recentVars>>

-----------------------------------------------------------------------------
(* Program constants *)

StartYear == 2016
EndYear == 2025
Periods == 12

MonthOf(y, mo) == y * 12 + (mo - 1)
StartMonth == MonthOf(StartYear, 1)
EndMonth == MonthOf(EndYear, 12)

-----------------------------------------------------------------------------
(* Exact arithmetic on cell values *)

NaN == <<0, 0>>

IsNaN(x) == x = NaN

Abs(i) == IF i < 0 THEN -i ELSE i

RECURSIVE Gcd(_, _)
Gcd(a, b) == IF b = 0 THEN a ELSE Gcd(b, a % b)

Rat(n, d) ==
    IF d = 0 THEN NaN
    ELSE LET g == Gcd(Abs(n), Abs(d))
             s == IF d < 0 THEN -1 ELSE 1
         IN  <<(s * n) \div g, (s * d) \div g>>

Num(i) == <<i, 1>>

RAdd(x, y) == Rat(x[1] * y[2] + y[1] * x[2], x[2] * y[2])
RSub(x, y) == Rat(x[1] * y[2] - y[1] * x[2], x[2] * y[2])
RMul(x, y) == Rat(x[1] * y[1], x[2] * y[2])
RDiv(x, y) == Rat(x[1] * y[2], x[2] * y[1])

-----------------------------------------------------------------------------
(* DataFrames *)

NoneVal == [kind |-> "None", cols |-> {}, rows |-> <<>>]
RaiseVal == [kind |-> "Raise", cols |-> {}, rows |-> <<>>]
EmptyDF == [kind |-> "DataFrame", cols |-> {}, rows |-> <<>>]

DF(cols, rows) == [kind |-> "DataFrame", cols |-> cols, rows |-> rows]

\* DataFrame.empty: some axis has length 0
IsEmpty(d) == d.cols = {} \/ d.rows = <<>>

IndexSet(d) == {d.rows[i].date : i \in 1..Len(d.rows)}
Column(d, c) == [i \in 1..Len(d.rows) |-> d.rows[i].v[c]]

RECURSIVE SortedSeq(_)
SortedSeq(S) ==
    IF S = {} THEN <<>>
    ELSE LET m == CHOOSE x \in S : \A y \in S : x <= y
         IN  <<m>> \o SortedSeq(S \ {m})

RECURSIVE Flatten(_)
Flatten(ss) == IF ss = <<>> THEN <<>> ELSE Head(ss) \o Flatten(Tail(ss))

SelectRows(rows, d) == SelectSeq(rows, LAMBDA r : r.date = d)

\* df[START_DATE:END_DATE] on a month index
Window(d) ==
    DF(d.cols, SelectSeq(d.rows, LAMBDA r : StartMonth <= r.date /\ r.date <= EndMonth))

NaNRow(cols) == [c \in cols |-> NaN]

\* the rows of the outer join that carry index value d: every pairing of a
\* left row with a right row of that date, a side without the date giving NaN
JoinAt(L, R, d) ==
    LET ls == IF SelectRows(L.rows, d) = <<>>
              THEN <<[date |-> d, v |-> NaNRow(L.cols)]>> ELSE SelectRows(L.rows, d)
        rs == IF SelectRows(R.rows, d) = <<>>
              THEN <<[date |-> d, v |-> NaNRow(R.cols)]>> ELSE SelectRows(R.rows, d)
    IN  Flatten([i \in 1..Len(ls) |->
            [j \in 1..Len(rs) |->
                [date |-> d,
                 v |-> [c \in L.cols \cup R.cols |->
                          IF c \in L.cols THEN ls[i].v[c] ELSE rs[j].v[c]]]]])

\* a join that keeps the calling frame's index only (how='left')
JoinOuter_Left(L, R) ==
    IF L.cols \cap R.cols # {} THEN RaiseVal
    ELSE LET ds == SortedSeq(IndexSet(L))
         IN  DF(L.cols \cup R.cols, Flatten([k \in 1..Len(ds) |-> JoinAt(L, R, ds[k])]))

\* DataFrame.join(other, how='outer'): union of the two indexes, sorted;
\* overlapping column names raise ValueError
JoinOuter(L, R) ==
    IF L.cols \cap R.cols # {} THEN RaiseVal
    ELSE LET ds == SortedSeq(IndexSet(L) \cup IndexSet(R))
         IN  DF(L.cols \cup R.cols, Flatten([k \in 1..Len(ds) |-> JoinAt(L, R, ds[k])]))

-----------------------------------------------------------------------------
(* 1. Source A: clean_cpi_data *)

\* JSON scalars as the parsers tell them apart:
\*   "num"   a string that is the text of a number          "3.801"
\*   "date"  a string pandas parses to a date of that year  "Oct-2023"
\*   "frag"  a month/day fragment without a year            "10/02"
\*   "text"  any other non-blank string                     "NA", "-"
\*   "blank" an empty or whitespace-only string
\*   "null"  a value that is not a string
Tok(t, val, year, mo, day) == [t |-> t, val |-> val, year |-> year, mo |-> mo, day |-> day]
NumTok(x) == Tok("num", x, 0, 0, 0)
DateTok(y, mo) == Tok("date", NaN, y, mo, 1)
FragTok(mo, day) == Tok("frag", NaN, 0, mo, day)
TextTok == Tok("text", NaN, 0, 0, 0)
BlankTok == Tok("blank", NaN, 0, 0, 0)
NullTok == Tok("null", NaN, 0, 0, 0)

\* float(s) raises ValueError unless s is the text of a number
FloatRaises(tok) == tok.t # "num"
FloatOf(tok) == tok.val

SeriesMap(id) ==
    CASE id = "CUUR0000SA0" -> "CPI_Total"
      [] id = "CUUR0000SAF1" -> "CPI_Food"
      [] id = "CUUR0000SA0E" -> "CPI_Energy"
      [] id = "CUUR0000SAH1" -> "CPI_Shelter"
      [] OTHER -> id

\* period code k stands for the string "M%02d" % k; 'M01' <= period <= 'M12'
IsMonthPeriod(p) == 1 <= p /\ p <= 12

\* the items of one series that pass the month filter, as long-form records
SeriesRecords(series) ==
    LET kept == SelectSeq(series.data, LAMBDA it : IsMonthPeriod(it.period))
    IN  [i \in 1..Len(kept) |->
            [date |-> MonthOf(kept[i].year, kept[i].period),
             type |-> SeriesMap(series.seriesID),
             value |-> kept[i].value]]

AllRecords(raw) == Flatten([i \in 1..Len(raw.series) |-> SeriesRecords(raw.series[i])])

HasDuplicateEntries(recs) ==
    \E i, j \in 1..Len(recs) :
        i < j /\ recs[i].date = recs[j].date /\ recs[i].type = recs[j].type

\* df.pivot(index='date', columns='type', values='value'), index sorted
Pivot(recs) ==
    LET ds == SortedSeq({recs[i].date : i \in 1..Len(recs)})
        cs == {recs[i].type : i \in 1..Len(recs)}
        Cell(d, c) ==
            IF \E i \in 1..Len(recs) : recs[i].date = d /\ recs[i].type = c
            THEN FloatOf(recs[CHOOSE i \in 1..Len(recs) :
                                recs[i].date = d /\ recs[i].type = c].value)
            ELSE NaN
    IN  DF(cs, [k \in 1..Len(ds) |-> [date |-> ds[k], v |-> [c \in cs |-> Cell(ds[k], c)]]])

\* Series.ffill()
Ffill(xs) ==
    [i \in 1..Len(xs) |->
        IF \E j \in 1..i : ~IsNaN(xs[j])
        THEN xs[CHOOSE j \in 1..i : ~IsNaN(xs[j]) /\ \A k \in (j+1)..i : IsNaN(xs[k])]
        ELSE NaN]

\* a shift that is one row short
PctChange_ShortLag(xs, periods, pad) ==
    LET data == IF pad THEN Ffill(xs) ELSE xs
    IN  [i \in 1..Len(xs) |->
            IF i <= periods - 1 THEN NaN
            ELSE RSub(RDiv(data[i], data[i - (periods - 1)]), Num(1))]

\* Series.pct_change(periods): data / data.shift(periods) - 1, by row position;
\* pad tells whether missing values are forward-filled first
PctChange(xs, periods, pad) ==
    LET data == IF pad THEN Ffill(xs) ELSE xs
    IN  [i \in 1..Len(xs) |->
            IF i <= periods THEN NaN
            ELSE RSub(RDiv(data[i], data[i - periods]), Num(1))]

YoYName(c) == c \o "_YoY"

\* the loop over df_pivot.columns adding <col>_YoY
AddYoY(d, pad) ==
    LET yoy == [c \in d.cols |-> PctChange(Column(d, c), Periods, pad)]
        Base(n) == CHOOSE c \in d.cols : n = YoYName(c)
        cs == d.cols \cup {YoYName(c) : c \in d.cols}
    IN  DF(cs, [i \in 1..Len(d.rows) |->
                  [date |-> d.rows[i].date,
                   v |-> [n \in cs |->
                            IF n \in d.cols THEN d.rows[i].v[n]
                            ELSE RMul(yoy[Base(n)][i], Num(100))]]])

clean_cpi_data(file, pad) ==
    CASE file.kind = "absent" -> NoneVal                    \* FileNotFoundError
      [] file.kind = "invalid_json" -> RaiseVal             \* JSONDecodeError
      [] file.kind = "json" /\ ~file.hasResults -> NoneVal  \* no 'Results'/'series'
      [] OTHER ->
            LET recs == AllRecords(file)
            IN  IF \E i \in 1..Len(recs) : FloatRaises(recs[i].value)
                THEN RaiseVal                               \* float(value)
                ELSE IF recs = <<>> THEN RaiseVal           \* pivot: KeyError
                ELSE IF HasDuplicateEntries(recs) THEN RaiseVal
                ELSE AddYoY(Pivot(recs), pad)

-----------------------------------------------------------------------------
(* 2. Source B: clean_energy_data *)

EnergyMeasures == <<"Gas_Price", "Diesel_Price", "Oil_Price">>

NaT == 0

\* the year 'nan' stands for: no year could be derived, the row is skipped
NoYear == 0

\* a header that is no date falling back to the first year of the period
HeaderYear_Default(tok) == IF tok.t = "date" THEN tok.year ELSE StartYear

\* pd.to_datetime(header_date, errors='coerce').year inside the try block
HeaderYear(tok) == IF tok.t = "date" THEN tok.year ELSE NoYear

DaysIn(y, mo) ==
    CASE mo \in {4, 6, 9, 11} -> 30
      [] mo = 2 -> IF y % 4 = 0 /\ (y % 100 # 0 \/ y % 400 = 0) THEN 29 ELSE 28
      [] OTHER -> 31

\* pd.to_datetime(f"{year}-{date_part.replace('/', '-')}", errors='coerce'),
\* reduced to the month the date falls in; NaT when it is no calendar date
FullDate(y, tok) ==
    IF tok.t = "frag" /\ 1 <= tok.mo /\ tok.mo <= 12
       /\ 1 <= tok.day /\ tok.day <= DaysIn(y, tok.mo)
    THEN MonthOf(y, tok.mo) ELSE NaT

IsStr(tok) == tok.t # "null"
IsBlank(tok) == tok.t = "blank"

\* the pair loop leaving the row at the first pair it cannot use (break where
\* the code has continue)
RowPoints_StopAtSkip(row) ==
    IF Len(row.toks) = 0 \/ ~row.islist THEN <<>>
    ELSE IF HeaderYear(row.toks[1]) = NoYear THEN <<>>
    ELSE LET y == HeaderYear(row.toks[1])
             pairs == Tail(row.toks)
             Kept(k) ==
                 /\ IsStr(pairs[2*k - 1]) /\ IsStr(pairs[2*k])
                 /\ ~IsBlank(pairs[2*k - 1]) /\ ~IsBlank(pairs[2*k])
                 /\ ~FloatRaises(pairs[2*k])
         IN  Flatten([k \in 1..(Len(pairs) \div 2) |->
                 IF \A j \in 1..k : Kept(j)
                 THEN <<[date |-> FullDate(y, pairs[2*k - 1]), val |-> FloatOf(pairs[2*k])]>>
                 ELSE <<>>])

\* the (date, value) points one row appends to parsed_data
RowPoints(row) ==
    IF Len(row.toks) = 0 \/ ~row.islist THEN <<>>
    ELSE IF HeaderYear(row.toks[1]) = NoYear THEN <<>>
    ELSE LET y == HeaderYear(row.toks[1])
             pairs == Tail(row.toks)
             Kept(k) ==
                 /\ IsStr(pairs[2*k - 1]) /\ IsStr(pairs[2*k])
                 /\ ~IsBlank(pairs[2*k - 1]) /\ ~IsBlank(pairs[2*k])
                 /\ ~FloatRaises(pairs[2*k])
         IN  Flatten([k \in 1..(Len(pairs) \div 2) |->
                 IF Kept(k)
                 THEN <<[date |-> FullDate(y, pairs[2*k - 1]), val |-> FloatOf(pairs[2*k])]>>
                 ELSE <<>>])

ParsedData(file) == Flatten([i \in 1..Len(file.rows) |-> RowPoints(file.rows[i])])

RECURSIVE SumVals(_)
SumVals(ps) == IF ps = <<>> THEN Num(0) ELSE RAdd(Head(ps).val, SumVals(Tail(ps)))

Mean(ps) == IF ps = <<>> THEN NaN ELSE RDiv(SumVals(ps), Num(Len(ps)))

\* df_temp.dropna(subset=['date']).set_index('date').resample('MS').mean()
ResampleMean(col, points) ==
    LET ps == SelectSeq(points, LAMBDA q : q.date # NaT)
        ms == {ps[i].date : i \in 1..Len(ps)}
    IN  IF ps = <<>> THEN DF({col}, <<>>)
        ELSE LET lo == CHOOSE m \in ms : \A n \in ms : m <= n
                 hi == CHOOSE m \in ms : \A n \in ms : n <= m
             IN  DF({col}, [k \in 1..(hi - lo + 1) |->
                     [date |-> lo + k - 1,
                      v |-> [c \in {col} |->
                               Mean(SelectSeq(ps, LAMBDA q : q.date = lo + k - 1))]]])

\* len(row) of line 136 raises TypeError for an element without a length
\* (null, a number); a string or an object has one
EnergyLoadRaises(file) ==
    file.kind = "list" /\ \E i \in 1..Len(file.rows) : ~file.rows[i].sized

\* combined_df after the first n measures of the loop
RECURSIVE EnergyCombined(_, _)
EnergyCombined(files, n) ==
    IF n = 0 THEN EmptyDF
    ELSE LET prev == EnergyCombined(files, n - 1)
             col == EnergyMeasures[n]
             file == files[col]
         IN  IF file.kind # "list" THEN prev                 \* not found / invalid JSON
             ELSE IF ParsedData(file) = <<>> THEN prev       \* df_temp.empty
             ELSE IF IsEmpty(prev) THEN ResampleMean(col, ParsedData(file))
             ELSE JoinOuter(prev, ResampleMean(col, ParsedData(file)))

clean_energy_data(files) ==
    IF \E n \in 1..Len(EnergyMeasures) : EnergyLoadRaises(files[EnergyMeasures[n]])
    THEN RaiseVal
    ELSE LET combined == EnergyCombined(files, Len(EnergyMeasures))
         IN  IF IsEmpty(combined) THEN EmptyDF ELSE Window(combined)

-----------------------------------------------------------------------------
(* 3. Source C: clean_labor_data *)

LaborMeasures == <<"Unemp_Total", "Unemp_Men", "Unemp_Women">>

MonthNames ==
    <<"Jan", "Feb", "Mar", "Apr", "May", "Jun", "Jul", "Aug", "Sep", "Oct", "Nov", "Dec">>

IsMonthName(c) == \E k \in 1..Len(MonthNames) : MonthNames[k] = c

\* month_map, as a number
MonthNum(c) == CHOOSE k \in 1..Len(MonthNames) : MonthNames[k] = c

\* pd.to_numeric(errors='coerce') of one cell
ToNumeric(tok) == IF tok.t = "num" THEN tok.val ELSE NaN

\* pd.to_datetime(Year.astype(str) + "-" + Month_Num + "-01") raises unless
\* every Year cell of the melted frame is a plain year number
YearParses(tok) == tok.t = "num" /\ tok.val[2] = 1 /\ tok.val[1] >= 1

\* a melt that keeps every value column: a column that names no month
\* lands on December
LaborMelted_AllColumns(file) ==
    Flatten([k \in 1..Len(file.cols) |->
        [i \in 1..Len(file.rows) |->
            [year |-> file.rows[i].year,
             mo |-> IF IsMonthName(file.cols[k])
                    THEN CHOOSE n \in 1..Len(MonthNames) : MonthNames[n] = file.cols[k]
                    ELSE Len(MonthNames),
             rate |-> file.rows[i].cells[file.cols[k]]]]])

\* melt(id_vars=["Year"]) filtered to the month columns: column by column,
\* within a column row by row
LaborMelted(file) ==
    LET mcols == SelectSeq(file.cols, IsMonthName)
    IN  Flatten([k \in 1..Len(mcols) |->
            [i \in 1..Len(file.rows) |->
                [year |-> file.rows[i].year,
                 mo |-> MonthNum(mcols[k]),
                 rate |-> file.rows[i].cells[mcols[k]]]]])

\* df_melted[['date', 'Rate']].sort_values('date').set_index('date'), renamed
\* and coerced to numbers
LaborClean(col, file) ==
    LET long == LaborMelted(file)
        dated == [i \in 1..Len(long) |->
                    [date |-> MonthOf(long[i].year.val[1], long[i].mo),
                     v |-> [c \in {col} |-> ToNumeric(long[i].rate)]]]
        ds == SortedSeq({dated[i].date : i \in 1..Len(dated)})
    IN  DF({col}, Flatten([k \in 1..Len(ds) |-> SelectRows(dated, ds[k])]))

\* the try block fails (and the measure is skipped) when the file is absent,
\* has no Year column, or a Year cell does not form a date
LaborSkipped(file) ==
    \/ file.kind # "csv"
    \/ ~file.hasYear
    \/ \E i \in 1..Len(LaborMelted(file)) : ~YearParses(LaborMelted(file)[i].year)

RECURSIVE LaborCombined(_, _)
LaborCombined(files, n) ==
    IF n = 0 THEN EmptyDF
    ELSE LET prev == LaborCombined(files, n - 1)
             col == LaborMeasures[n]
         IN  IF LaborSkipped(files[col]) THEN prev
             ELSE IF IsEmpty(prev) THEN LaborClean(col, files[col])
             ELSE JoinOuter(prev, LaborClean(col, files[col]))

clean_labor_data(files) ==
    LET combined == LaborCombined(files, Len(LaborMeasures))
    IN  IF IsEmpty(combined) THEN combined ELSE Window(combined)

-----------------------------------------------------------------------------
(* 4. Source D: clean_news_data *)

\* a text is a sequence of words; str.lower() word by word
Lower(w) ==
    CASE w = "INFLATION" -> "inflation"
      [] w = "Inflation" -> "inflation"
      [] w = "Recession" -> "recession"
      [] w = "High" -> "high"
      [] OTHER -> w

\* the lower-case words that have k as a substring / suffix / prefix
HasSubstr(w, k) == w = k \/ (k = "layoff" /\ w = "layoffs") \/ (k = "price" /\ w = "prices")
HasSuffix(w, k) == w = k
HasPrefix(w, k) == w = k \/ (k = "price" /\ w = "prices")

Keywords ==
    <<<<"inflation">>, <<"recession">>, <<"crisis">>, <<"high", "price">>,
      <<"layoff">>, <<"unemployment">>>>

\* f"News_Count_{kw.title().replace(' ', '_')}"
NewsColName(kw) ==
    CASE kw = <<"inflation">> -> "News_Count_Inflation"
      [] kw = <<"recession">> -> "News_Count_Recession"
      [] kw = <<"crisis">> -> "News_Count_Crisis"
      [] kw = <<"high", "price">> -> "News_Count_High_Price"
      [] kw = <<"layoff">> -> "News_Count_Layoff"
      [] kw = <<"unemployment">> -> "News_Count_Unemployment"

NewsCountCols == {NewsColName(Keywords[k]) : k \in 1..Len(Keywords)}

\* full_text.str.contains(kw, case=False, regex=False) on the joined words
ContainsKw(text, kw) ==
    IF Len(kw) = 1
    THEN \E i \in 1..Len(text) : HasSubstr(Lower(text[i]), kw[1])
    ELSE \E i \in 1..(Len(text) - 1) :
            HasSuffix(Lower(text[i]), kw[1]) /\ HasPrefix(Lower(text[i + 1]), kw[2])

\* fillna(''): an absent key (NaN) or a null is the empty string
TextOf(field) == IF field.has = "str" THEN field.words ELSE <<>>

FullText(doc) == [i \in 1..Len(TextOf(doc.headline) \o TextOf(doc.snippet)) |->
                     Lower((TextOf(doc.headline) \o TextOf(doc.snippet))[i])]

\* the archive being expanded whenever it is there
NewsExtracts_Always(files) == files.zip.present

\* the branch of lines 315-321: no file matches and the archive exists
NewsExtracts(files) == files.json = <<>> /\ files.zip.present

\* zip_ref.extractall(RAW_DIR): the members become files of data/raw
ExtractAll(files) == [files EXCEPT !.json = files.json \o files.zip.members]

\* json_files after the optional extraction of the archive
NewsJsonFiles(files) ==
    IF NewsExtracts(files) THEN ExtractAll(files).json ELSE files.json

\* the calls on data/raw in the order clean_news_data makes them: the glob,
\* the test for the archive, the extraction and second glob, one open per
\* file found
NewsOps(files) ==
    <<"glob">>
    \o (IF files.json = <<>> THEN <<"exists">> ELSE <<>>)
    \o (IF NewsExtracts(files) THEN <<"extractall", "glob">> ELSE <<>>)
    \o (IF files.json = <<>> /\ ~files.zip.present THEN <<>>
        ELSE [i \in 1..Len(NewsJsonFiles(files)) |-> "open"])

AllArticles(files) ==
    Flatten([i \in 1..Len(NewsJsonFiles(files)) |->
        IF NewsJsonFiles(files)[i].kind = "list" THEN NewsJsonFiles(files)[i].docs ELSE <<>>])

\* df.get('date', df.get('pub_date')): the column the dates are read from
DateColumn(docs) ==
    IF \E i \in 1..Len(docs) : docs[i].key = "date" THEN "date"
    ELSE IF \E i \in 1..Len(docs) : docs[i].key = "pub_date" THEN "pub_date"
    ELSE "none"

\* a timestamp is [ok, month, day, tod]: tod = 0 at midnight, > 0 later that day
DocDate(doc, col) == IF doc.key = col /\ doc.ts.ok THEN doc.ts ELSE [ok |-> FALSE, month |-> NaT, day |-> 0, tod |-> 0]

\* (date >= START_DATE) & (date <= END_DATE), the bounds being midnights
InPeriod(ts) ==
    /\ ts.month >= StartMonth
    /\ \/ ts.month < EndMonth
       \/ ts.month = EndMonth /\ (ts.day < DaysIn(EndYear, 12) \/ (ts.day = DaysIn(EndYear, 12) /\ ts.tod = 0))

KeptDocs(docs) ==
    SelectSeq([i \in 1..Len(docs) |-> [ts |-> DocDate(docs[i], DateColumn(docs)), doc |-> docs[i]]],
              LAMBDA r : r.ts.ok /\ InPeriod(r.ts))

RECURSIVE CountKw(_, _)
CountKw(rs, kw) ==
    IF rs = <<>> THEN 0
    ELSE (IF ContainsKw(FullText(Head(rs).doc), kw) THEN 1 ELSE 0) + CountKw(Tail(rs), kw)

RECURSIVE SumOver(_, _)
SumOver(f, S) ==
    IF S = {} THEN 0 ELSE LET x == CHOOSE y \in S : TRUE IN f[x] + SumOver(f, S \ {x})

NewsCols == NewsCountCols \cup {"News_Total_Counting"}

\* df[news_cols].resample('MS').sum() plus the row-sum column
NewsMonthly(kept) ==
    LET ms == {kept[i].ts.month : i \in 1..Len(kept)}
    IN  IF kept = <<>> THEN DF(NewsCols, <<>>)
        ELSE LET lo == CHOOSE m \in ms : \A n \in ms : m <= n
                 hi == CHOOSE m \in ms : \A n \in ms : n <= m
                 Counts(m) ==
                     [c \in NewsCountCols |->
                         CountKw(SelectSeq(kept, LAMBDA r : r.ts.month = m),
                                 Keywords[CHOOSE k \in 1..Len(Keywords) : NewsColName(Keywords[k]) = c])]
             IN  DF(NewsCols, [k \in 1..(hi - lo + 1) |->
                     [date |-> lo + k - 1,
                      v |-> [c \in NewsCols |->
                               IF c \in NewsCountCols THEN Num(Counts(lo + k - 1)[c])
                               ELSE Num(SumOver(Counts(lo + k - 1), NewsCountCols))]]])

clean_news_data(files) ==
    LET docs == AllArticles(files)
    IN  IF docs = <<>> THEN EmptyDF                      \* no files / empty list
        ELSE IF DateColumn(docs) = "none" THEN RaiseVal  \* .dt on a None column
        ELSE IF \A i \in 1..Len(docs) : docs[i].headline.has = "absent" THEN RaiseVal
        ELSE IF \A i \in 1..Len(docs) : docs[i].snippet.has = "absent" THEN RaiseVal
        ELSE NewsMonthly(KeptDocs(docs))

-----------------------------------------------------------------------------
(* 5. merge_all_data *)

\* interpolation that only fills forward (limit_direction='forward')
InterpolateColumn_Forward(xs) ==
    [i \in 1..Len(xs) |->
        IF ~IsNaN(xs[i]) THEN xs[i]
        ELSE LET before == {j \in 1..(i - 1) : ~IsNaN(xs[j])}
                 after == {j \in (i + 1)..Len(xs) : ~IsNaN(xs[j])}
                 p == CHOOSE j \in before : \A k \in before : k <= j
                 q == CHOOSE j \in after : \A k \in after : j <= k
             IN  IF before # {} /\ after # {}
                 THEN RAdd(xs[p], RMul(RSub(xs[q], xs[p]), Rat(i - p, q - p)))
                 ELSE IF before # {} THEN xs[p]
                 ELSE NaN]

\* np.interp over row positions, as DataFrame.interpolate(method='linear',
\* limit_direction='both') applies it to one column
InterpolateColumn(xs) ==
    [i \in 1..Len(xs) |->
        IF ~IsNaN(xs[i]) THEN xs[i]
        ELSE LET before == {j \in 1..(i - 1) : ~IsNaN(xs[j])}
                 after == {j \in (i + 1)..Len(xs) : ~IsNaN(xs[j])}
                 p == CHOOSE j \in before : \A k \in before : k <= j
                 q == CHOOSE j \in after : \A k \in after : j <= k
             IN  IF before # {} /\ after # {}
                 THEN RAdd(xs[p], RMul(RSub(xs[q], xs[p]), Rat(i - p, q - p)))
                 ELSE IF before # {} THEN xs[p]
                 ELSE IF after # {} THEN xs[q]
                 ELSE NaN]

Interpolate(d) ==
    LET filled == [c \in d.cols |-> InterpolateColumn(Column(d, c))]
    IN  DF(d.cols, [i \in 1..Len(d.rows) |->
                      [date |-> d.rows[i].date, v |-> [c \in d.cols |-> filled[c][i]]]])

\* final_df = dfs[0]; for df in dfs[1:]: final_df = final_df.join(df, how='outer')
RECURSIVE JoinAll(_)
JoinAll(dfs) ==
    IF Len(dfs) = 1 THEN dfs[1]
    ELSE JoinOuter(JoinAll(SubSeq(dfs, 1, Len(dfs) - 1)), dfs[Len(dfs)])

\* [d for d in [df1, df2, df3, df4] if not d.empty]
DfsToMerge(ds) == SelectSeq(ds, LAMBDA d : ~IsEmpty(d))

\* the result of merge_all_data once the four parsers have returned ds:
\* how it ends, final_df before and after interpolation, and whether
\* final_dataset.csv was written
MergeResult(outc, joined, final, wrote) ==
    [outcome |-> outc, joined |-> joined, final |-> final, wrote |-> wrote]

\* a merge without the "no data" guard: it writes whatever it has
merge_all_data_NoGuard(ds) ==
    LET some == SelectSeq(ds, LAMBDA d : d.kind = "DataFrame" /\ ~IsEmpty(d))
        joined == IF some = <<>> THEN EmptyDF ELSE Window(JoinAll(some))
    IN  MergeResult("returned", joined, Interpolate(joined), TRUE)

\* a merge that takes None for an empty table and returns quietly
merge_all_data_NoneIsEmpty(ds) ==
    LET some == SelectSeq(ds, LAMBDA d : d.kind = "DataFrame" /\ ~IsEmpty(d))
        joined == IF some = <<>> THEN EmptyDF ELSE Window(JoinAll(some))
    IN  IF some = <<>> THEN MergeResult("returned", EmptyDF, EmptyDF, FALSE)
        ELSE MergeResult("returned", joined, Interpolate(joined), TRUE)

merge_all_data(ds) ==
    IF \E i \in 1..Len(ds) : ds[i].kind = "None"
    THEN MergeResult("raised", EmptyDF, EmptyDF, FALSE)     \* None.empty: AttributeError
    ELSE IF DfsToMerge(ds) = <<>>
    THEN MergeResult("returned", EmptyDF, EmptyDF, FALSE)   \* "No data available"
    ELSE LET joined == Window(JoinAll(DfsToMerge(ds)))
             final == Interpolate(joined)
         IN  IF joined.rows = <<>>
             THEN MergeResult("raised", joined, final, TRUE) \* index.min().date() on NaT
             ELSE MergeResult("returned", joined, final, TRUE)

-----------------------------------------------------------------------------
(* Raw inputs the run may find in data/raw *)

\* number of consecutive months a modelled CPI series spans
CpiLen == 14

CpiFile(kind, hasResults, series) ==
    [kind |-> kind, hasResults |-> hasResults, series |-> series]

CpiItem(m, tok) == [year |-> m \div 12, period |-> (m % 12) + 1, value |-> tok]

\* the API lists a series latest month first; gaps are the offsets (from the
\* first month) of months the series does not report
CpiData(first, gaps, base, slope) ==
    LET offs == SelectSeq([k \in 1..CpiLen |-> CpiLen - k], LAMBDA o : o \notin gaps)
    IN  [i \in 1..Len(offs) |->
            CpiItem(first + offs[i], NumTok(Num(base + slope * (first + offs[i] - StartMonth))))]

TotalSeries(first, gaps) ==
    [seriesID |-> "CUUR0000SA0", data |-> CpiData(first, gaps, 200, 2)]
FoodSeries(first, gaps) ==
    [seriesID |-> "CUUR0000SAF1", data |-> CpiData(first, gaps, 150, 3)]
OtherSeries(first) ==
    [seriesID |-> "CUUR0000SETB01", data |-> CpiData(first, {}, 120, 1)]

\* an annual-average item (period M13) and an item whose value is "-"
AnnualItem == [year |-> StartYear, period |-> 13, value |-> NumTok(Num(210))]
DashItem == [year |-> StartYear, period |-> 6, value |-> TextTok]

CpiGapChoices == {{}, {1}, {CpiLen - 2}}

CpiInputs ==
    {CpiFile("absent", FALSE, <<>>),
     CpiFile("invalid_json", FALSE, <<>>),
     CpiFile("json", FALSE, <<>>),
     CpiFile("json", TRUE, <<>>),
     CpiFile("json", TRUE, <<[seriesID |-> "CUUR0000SA0", data |-> <<AnnualItem, DashItem>>]>>),
     CpiFile("json", TRUE, <<TotalSeries(StartMonth, {}), TotalSeries(StartMonth, {})>>),
     CpiFile("json", TRUE, <<TotalSeries(StartMonth - 1, {}), OtherSeries(StartMonth - 1)>>),
     CpiFile("json", TRUE, <<TotalSeries(StartMonth - CpiLen, {})>>),
     CpiFile("json", TRUE,
             <<[seriesID |-> "CUUR0000SA0",
                data |-> <<AnnualItem>> \o CpiData(StartMonth, {}, 200, 2)]>>)}
    \cup {CpiFile("json", TRUE,
                  <<[seriesID |-> "CUUR0000SA0",
                     data |-> <<DashItem>> \o CpiData(StartMonth, {DashItem.period - 1}, 200, 2)],
                    FoodSeries(StartMonth, {})>>)}
    \cup {CpiFile("json", TRUE, <<TotalSeries(StartMonth, g)>>) : g \in CpiGapChoices}
    \cup {CpiFile("json", TRUE, <<TotalSeries(StartMonth, g), FoodSeries(StartMonth, h)>>) :
             g \in CpiGapChoices, h \in {{}, {1}}}

EnergyFile(kind, rows) == [kind |-> kind, rows |-> rows]
ERow(toks) == [islist |-> TRUE, sized |-> TRUE, toks |-> toks]
\* elements of the row list that are no list: null or a number, and a string
ENullRow == [islist |-> FALSE, sized |-> FALSE, toks |-> <<>>]
EStrRow == [islist |-> FALSE, sized |-> TRUE, toks |-> <<>>]

\* the header and two weekly (date, price) pairs of one month
ERowGood(y, mo) ==
    ERow(<<DateTok(y, mo), FragTok(mo, 2), NumTok(Rat(3801, 1000)),
           FragTok(mo, 9), NumTok(Rat(3750, 1000))>>)
\* the same shape under a header that is no date
ERowBadHeader(h, mo) ==
    ERow(<<h, FragTok(mo, 2), NumTok(Rat(9001, 1000)), FragTok(mo, 9), NumTok(Rat(9002, 1000))>>)
\* a pair with a non-numeric price, and a trailing unpaired token
ERowRagged(y, mo) ==
    ERow(<<DateTok(y, mo), FragTok(mo, 1), NumTok(Num(4)), FragTok(mo, 8), TextTok,
           FragTok(mo, 15), NumTok(Num(5)), FragTok(mo, 22)>>)
\* a pair whose date fragment is no calendar date
ERowNoDate(y) == ERow(<<DateTok(y, 2), FragTok(2, 30), NumTok(Num(7))>>)

EnergyInput(gas, diesel, oil) ==
    [c \in {"Gas_Price", "Diesel_Price", "Oil_Price"} |->
        IF c = "Gas_Price" THEN gas ELSE IF c = "Diesel_Price" THEN diesel ELSE oil]

EnergyAbsent == EnergyFile("absent", <<>>)

EnergyInputs ==
    {EnergyInput(EnergyAbsent, EnergyAbsent, EnergyAbsent),
     EnergyInput(EnergyFile("list", <<ERowGood(StartYear, 3), ERowBadHeader(TextTok, 4),
                                      ERowRagged(StartYear, 5)>>),
                 EnergyFile("list", <<ERowBadHeader(NullTok, 3)>>),
                 EnergyAbsent),
     EnergyInput(EnergyFile("list", <<ERowBadHeader(BlankTok, 3), ERowGood(StartYear, 4)>>),
                 EnergyFile("list", <<ERowNoDate(StartYear)>>),
                 EnergyFile("list", <<ERowGood(StartYear, 6), ERow(<<>>), EStrRow>>)),
     EnergyInput(EnergyFile("list", <<ERowGood(StartYear, 3), ENullRow, ERowGood(StartYear, 4)>>),
                 EnergyFile("list", <<ERowGood(StartYear, 5)>>),
                 EnergyAbsent),
     EnergyInput(EnergyFile("list", <<ERowGood(StartYear - 1, 11)>>),
                 EnergyFile("invalid_json", <<>>),
                 EnergyAbsent)}


LaborFile(kind, hasYear, cols, rows) ==
    [kind |-> kind, hasYear |-> hasYear, cols |-> cols, rows |-> rows]

LaborAbsent == LaborFile("absent", FALSE, <<>>, <<>>)

\* one matrix row: the year and a rate per month column; months after
\* `last` are not published yet (blank cells); k tells rows of one file apart
LaborRow(y, k, last) ==
    [year |-> NumTok(Num(y)),
     cells |-> [c \in {MonthNames[i] : i \in 1..Len(MonthNames)} \cup {"Annual"} |->
                  IF c = "Annual" THEN NumTok(Num(99))
                  ELSE IF MonthNum(c) > last THEN BlankTok
                  ELSE NumTok(Rat(30 + 10 * k + MonthNum(c) + (y % 3), 10))]]

LaborCsv(years, cols, last) ==
    LaborFile("csv", TRUE, cols, [k \in 1..Len(years) |-> LaborRow(years[k], k, last)])

\* the same file with the Year cell of its last row footnoted (no number)
LaborCsvFootnoted(years, cols, last) ==
    LaborFile("csv", TRUE, cols,
              [k \in 1..Len(years) |->
                  IF k = Len(years) THEN [LaborRow(years[k], k, last) EXCEPT !.year = TextTok]
                  ELSE LaborRow(years[k], k, last)])

LaborInput(total, men, women) ==
    [c \in {"Unemp_Total", "Unemp_Men", "Unemp_Women"} |->
        IF c = "Unemp_Total" THEN total ELSE IF c = "Unemp_Men" THEN men ELSE women]

LaborInputs ==
    {LaborInput(LaborAbsent, LaborAbsent, LaborAbsent),
     LaborInput(LaborCsv(<<StartYear>>, MonthNames, 10), LaborAbsent,
                LaborCsv(<<StartYear - 1, StartYear>>, MonthNames \o <<"Annual">>, 12)),
     LaborInput(LaborCsv(<<StartYear, StartYear>>, MonthNames, 12),
                LaborCsv(<<StartYear>>, MonthNames, 12), LaborAbsent),
     LaborInput(LaborAbsent, LaborCsv(<<EndYear, EndYear + 1>>, MonthNames, 12),
                LaborCsvFootnoted(<<EndYear - 1, EndYear>>, MonthNames, 12)),
     LaborInput(LaborCsv(<<StartYear - 1>>, MonthNames, 12), LaborAbsent, LaborAbsent)}

NewsFile(kind, docs) == [kind |-> kind, docs |-> docs]
NewsInput(json, zipPresent, members) ==
    [json |-> json, zip |-> [present |-> zipPresent, members |-> members]]

Str(words) == [has |-> "str", words |-> words]
NullField == [has |-> "null", words |-> <<>>]
AbsentField == [has |-> "absent", words |-> <<>>]

TS(m, day, tod) == [ok |-> TRUE, month |-> m, day |-> day, tod |-> tod]
BadTS == [ok |-> FALSE, month |-> NaT, day |-> 0, tod |-> 0]

Doc(key, ts, headline, snippet) ==
    [key |-> key, ts |-> ts, headline |-> headline, snippet |-> snippet]

NewsInputs ==
    {NewsInput(<<>>, FALSE, <<>>),
     NewsInput(<<NewsFile("list",
                   <<Doc("date", TS(StartMonth + 1, 10, 1),
                         Str(<<"INFLATION", "concerns">>), Str(<<"the", "layoffs">>)),
                     Doc("date", TS(StartMonth + 3, 3, 0),
                         Str(<<"High">>), Str(<<"prices", "Recession">>)),
                     Doc("date", TS(StartMonth - 1, 31, 1),
                         Str(<<"crisis">>), NullField),
                     Doc("date", BadTS, Str(<<"unemployment">>), AbsentField)>>),
                 NewsFile("other", <<>>)>>, TRUE,
               <<NewsFile("list",
                   <<Doc("date", TS(StartMonth + 1, 12, 1),
                         Str(<<"crisis">>), Str(<<"crisis">>))>>)>>),
     NewsInput(<<>>, TRUE,
               <<NewsFile("list",
                   <<Doc("pub_date", TS(StartMonth + 2, 1, 1),
                         NullField, Str(<<"inflation", "crisis">>)),
                     Doc("pub_date", TS(StartMonth + 2, 20, 1),
                         Str(<<"the", "recession">>), Str(<<"unemployment">>))>>)>>),
     \* documents of one collection under different date keys
     NewsInput(<<NewsFile("list",
                   <<Doc("date", TS(StartMonth, 1, 0),
                         Str(<<"Inflation">>), Str(<<"crisis">>)),
                     Doc("pub_date", TS(StartMonth + 1, 6, 1),
                         Str(<<"recession">>), Str(<<"layoffs">>))>>)>>, FALSE, <<>>),
     \* documents of the last days of the period
     NewsInput(<<NewsFile("list",
                   <<Doc("date", TS(EndMonth, 30, 1), Str(<<"crisis">>), Str(<<"the">>)),
                     Doc("date", TS(EndMonth, 31, 0), Str(<<"inflation">>), NullField),
                     Doc("date", TS(EndMonth, 31, 1),
                         Str(<<"unemployment">>), Str(<<"the">>))>>)>>, FALSE, <<>>),
     \* collections in which no document has a headline, or none a snippet
     NewsInput(<<NewsFile("list",
                   <<Doc("date", TS(StartMonth + 1, 2, 1), AbsentField, Str(<<"inflation">>)),
                     Doc("date", TS(StartMonth + 1, 3, 1), AbsentField, NullField)>>)>>,
               FALSE, <<>>),
     NewsInput(<<NewsFile("list",
                   <<Doc("date", TS(StartMonth + 1, 2, 1), Str(<<"crisis">>), AbsentField)>>)>>,
               FALSE, <<>>)}

-----------------------------------------------------------------------------
(* The run of __main__: merge_all_data calls the four parsers, then merges *)

\* run_analysis.py not started
AnalysisIdle ==
    /\ adf = NoneVal
    /\ apc = "idle"
    /\ statsCols = {}
    /\ supplyPairs = <<>>
    /\ causalPairs = <<>>

\* file not written; no request made yet
NotWritten == [written |-> FALSE, n |-> 0]
NoRequest == [month |-> 0, status |-> "none"]

\* get_data.py not started
FetchIdle ==
    /\ api_key = ""
    /\ now = [year |-> StartYear, month |-> 1]
    /\ fpc = "idle"
    /\ fyear = StartYear /\ fmonth = 1
    /\ all_articles = 0
    /\ retries = 0
    /\ lastReq = NoRequest
    /\ nytFile = NotWritten
    /\ fexit = "none"

\* get_source_d_sentiment_recent not started
RecentIdle ==
    /\ start_date = 1 /\ end_date = 1 /\ current_date = 1
    /\ page = 0
    /\ rpc = "idle"
    /\ batches = <<>>
    /\ page_retries = 0
    /\ recent_articles = 0
    /\ recentFile = NotWritten

Init ==
    /\ AnalysisIdle
    /\ FetchIdle
    /\ RecentIdle
    /\ cpiFile \in CpiInputs
    /\ energyFiles \in EnergyInputs
    /\ laborFiles \in LaborInputs
    /\ newsFiles \in NewsInputs
    /\ fillPad \in BOOLEAN
    /\ newsOps = <<>>
    /\ pc = "cpi"
    /\ df1 = NoneVal /\ df2 = NoneVal /\ df3 = NoneVal /\ df4 = NoneVal
    /\ joinedDf = EmptyDF
    /\ finalDf = EmptyDF
    /\ written = {}
    /\ outcome = "running"

\* where the run goes after a parser returned r (an exception ends the run)
AfterParser(r, next) ==
    /\ pc' = IF r.kind = "Raise" THEN "done" ELSE next
    /\ outcome' = IF r.kind = "Raise" THEN "raised" ELSE outcome

CleanCpi ==
    /\ pc = "cpi"
    /\ UNCHANGED <<analysisVars, fetchVars, recentVars>>
    /\ df1' = clean_cpi_data(cpiFile, fillPad)
    /\ written' = IF df1'.kind = "DataFrame" THEN written \cup {"clean_cpi.csv"} ELSE written
    /\ AfterParser(df1', "energy")
    /\ UNCHANGED <<cpiFile, energyFiles, laborFiles, newsFiles, fillPad, newsOps,
                   df2, df3, df4, joinedDf, finalDf>>

CleanEnergy ==
    /\ pc = "energy"
    /\ UNCHANGED <<analysisVars, fetchVars, recentVars>>
    /\ df2' = clean_energy_data(energyFiles)
    /\ written' = IF df2'.kind = "DataFrame" /\ df2' # EmptyDF
                  THEN written \cup {"clean_energy.csv"} ELSE written
    /\ AfterParser(df2', "labor")
    /\ UNCHANGED <<cpiFile, energyFiles, laborFiles, newsFiles, fillPad, newsOps,
                   df1, df3, df4, joinedDf, finalDf>>

CleanLabor ==
    /\ pc = "labor"
    /\ UNCHANGED <<analysisVars, fetchVars, recentVars>>
    /\ df3' = clean_labor_data(laborFiles)
    /\ written' = IF ~IsEmpty(LaborCombined(laborFiles, Len(LaborMeasures)))
                  THEN written \cup {"clean_unemployment.csv"} ELSE written
    /\ AfterParser(df3', "news")
    /\ UNCHANGED <<cpiFile, energyFiles, laborFiles, newsFiles, fillPad, newsOps,
                   df1, df2, df4, joinedDf, finalDf>>

CleanNews ==
    /\ pc = "news"
    /\ UNCHANGED <<analysisVars, fetchVars, recentVars>>
    /\ df4' = clean_news_data(newsFiles)
    /\ newsFiles' = IF NewsExtracts(newsFiles) THEN ExtractAll(newsFiles) ELSE newsFiles
    /\ newsOps' = NewsOps(newsFiles)
    /\ written' = IF df4'.kind = "DataFrame" /\ df4' # EmptyDF
                  THEN written \cup {"clean_news_sentiment.csv"} ELSE written
    /\ AfterParser(df4', "merge")
    /\ UNCHANGED <<cpiFile, energyFiles, laborFiles, fillPad,
                   df1, df2, df3, joinedDf, finalDf>>

MergeAllData ==
    /\ pc = "merge"
    /\ UNCHANGED <<analysisVars, fetchVars, recentVars>>
    /\ LET r == merge_all_data(<<df1, df2, df3, df4>>)
       IN  /\ joinedDf' = r.joined
           /\ finalDf' = r.final
           /\ written' = IF r.wrote THEN written \cup {"final_dataset.csv"} ELSE written
           /\ outcome' = r.outcome
    /\ pc' = "done"
    /\ UNCHANGED <<cpiFile, energyFiles, laborFiles, newsFiles, fillPad, newsOps,
                   df1, df2, df3, df4>>

Next == CleanCpi \/ CleanEnergy \/ CleanLabor \/ CleanNews \/ MergeAllData

Spec == Init /\ [][Next]_vars

-----------------------------------------------------------------------------
(* run_analysis.py: the statistics printed from final_dataset.csv *)

\* target_cols of analyze_basic_stats
target_cols ==
    <<"Gas_Price", "Diesel_Price", "Oil_Price",
      "CPI_Total_YoY", "CPI_Food_YoY", "CPI_Energy_YoY", "CPI_Shelter_YoY",
      "Unemp_Total", "Unemp_Men", "Unemp_Women",
      "News_Total_Counting", "News_Count_Recession", "News_Count_Layoff",
      "News_Count_Crisis", "News_Count_HighPrice", "News_Count_Unemployment">>

\* cols = [c for c in target_cols if c in df.columns]
analyze_basic_stats(d) == {target_cols[i] : i \in 1..Len(target_cols)} \cap d.cols

\* a series as cells that remember the row their value was observed in
NoCell == [row |-> 0, val |-> NaN]
SeriesOf(d, c) == [t \in 1..Len(d.rows) |-> [row |-> t, val |-> d.rows[t].v[c]]]

\* Series.shift(k): the value of row t - k stands at row t
Shift(xs, k) ==
    [t \in 1..Len(xs) |-> IF 1 <= t - k /\ t - k <= Len(xs) THEN xs[t - k] ELSE NoCell]

\* a.corr(b): the (row of a's observation, row of b's observation) pairs
\* that enter the correlation, those where both values are present
CorrPairs(a, b) ==
    {<<a[t].row, b[t].row>> : t \in {u \in 1..Len(a) : ~IsNaN(a[u].val) /\ ~IsNaN(b[u].val)}}

SupplyLags == <<1, 2, 3>>
CausalLags == <<0, 1, 2, 3, 4, 5, 6>>

\* df['Diesel_Price'].shift(lag).corr(df['CPI_Food_YoY']) for each lag
analyze_supply_chain_impact(d) ==
    IF "Diesel_Price" \in d.cols /\ "CPI_Food_YoY" \in d.cols
    THEN [i \in 1..Len(SupplyLags) |->
            [lag |-> SupplyLags[i],
             pairs |-> CorrPairs(Shift(SeriesOf(d, "Diesel_Price"), SupplyLags[i]),
                                 SeriesOf(d, "CPI_Food_YoY"))]]
    ELSE <<>>

chains ==
    <<[name |-> "Energy -> Inflation", leader |-> "Gas_Price", follower |-> "CPI_Total_YoY"],
      [name |-> "Inflation -> Labor", leader |-> "CPI_Total_YoY", follower |-> "Unemp_Total"],
      [name |-> "Labor -> News Fear", leader |-> "Unemp_Total",
       follower |-> "News_Total_Counting"]>>

\* the follower shifted the other way, shift(lag)
CausalLagPairs_ShiftForward(d, leader, follower, lag) ==
    CorrPairs(SeriesOf(d, leader), Shift(SeriesOf(d, follower), lag))

\* df[leader].corr(df[follower].shift(-lag))
CausalLagPairs(d, leader, follower, lag) ==
    CorrPairs(SeriesOf(d, leader), Shift(SeriesOf(d, follower), 0 - lag))

\* per link whose columns are present, the pairs of each lag
analyze_causal_chain(d) ==
    LET present == SelectSeq(chains, LAMBDA ch : ch.leader \in d.cols /\ ch.follower \in d.cols)
    IN  Flatten([c \in 1..Len(present) |->
            [i \in 1..Len(CausalLags) |->
                [name |-> present[c].name, lag |-> CausalLags[i],
                 pairs |-> CausalLagPairs(d, present[c].leader, present[c].follower,
                                          CausalLags[i])]]])

\* df['Gender_Gap'] = df['Unemp_Women'] - df['Unemp_Men']
analyze_gender_gap(d) ==
    IF "Unemp_Women" \in d.cols /\ "Unemp_Men" \in d.cols
    THEN DF(d.cols \cup {"Gender_Gap"},
            [t \in 1..Len(d.rows) |->
                [date |-> d.rows[t].date,
                 v |-> [c \in d.cols \cup {"Gender_Gap"} |->
                          IF c = "Gender_Gap"
                          THEN RSub(d.rows[t].v["Unemp_Women"], d.rows[t].v["Unemp_Men"])
                          ELSE d.rows[t].v[c]]]])
    ELSE d

\* the largest number of rows of a modelled final_dataset.csv
ARows == 8

EnergyCols == {EnergyMeasures[i] : i \in 1..Len(EnergyMeasures)}
LaborCols == {LaborMeasures[i] : i \in 1..Len(LaborMeasures)}
CpiCols == {"CPI_Total", "CPI_Total_YoY", "CPI_Food", "CPI_Food_YoY"}

\* the column sets of the datasets tried: what merge_all_data can write
AnalysisColSets ==
    {EnergyCols \cup CpiCols \cup LaborCols \cup NewsCols,
     EnergyCols \cup CpiCols \cup LaborCols,
     NewsCols \cup LaborCols,
     {"Diesel_Price", "CPI_Food_YoY"},
     {"CPI_Total", "CPI_Food"}}

\* a dataset of n monthly rows from 2016-01; the columns in nanCols hold no
\* value at all
AnalysisDataset(cols, n, nanCols) ==
    DF(cols, [t \in 1..n |->
        [date |-> StartMonth + t - 1,
         v |-> [c \in cols |->
                  IF c \in nanCols THEN NaN
                  ELSE IF c = "Unemp_Women" THEN Num(t + 1)
                  ELSE Num(t)]]])

AnalysisInputs ==
    {NoneVal}
    \cup {AnalysisDataset(cols, n, nanCols) :
             cols \in AnalysisColSets, n \in 1..ARows, nanCols \in {{}, {"Diesel_Price"}}}

\* the pipeline of clean_data.py is not part of this run
CleanIdle ==
    /\ cpiFile = CpiFile("absent", FALSE, <<>>)
    /\ energyFiles = EnergyInput(EnergyAbsent, EnergyAbsent, EnergyAbsent)
    /\ laborFiles = LaborInput(LaborAbsent, LaborAbsent, LaborAbsent)
    /\ newsFiles = NewsInput(<<>>, FALSE, <<>>)
    /\ fillPad = FALSE
    /\ newsOps = <<>>
    /\ pc = "idle"
    /\ df1 = NoneVal /\ df2 = NoneVal /\ df3 = NoneVal /\ df4 = NoneVal
    /\ joinedDf = EmptyDF
    /\ finalDf = EmptyDF
    /\ written = {}
    /\ outcome = "idle"

\* df = load_data(): None when final_dataset.csv is missing
InitAnalysis ==
    /\ CleanIdle
    /\ FetchIdle
    /\ RecentIdle
    /\ adf \in AnalysisInputs
    /\ apc = "load"
    /\ statsCols = {}
    /\ supplyPairs = <<>>
    /\ causalPairs = <<>>

LoadData ==
    /\ apc = "load"
    /\ apc' = IF adf.kind = "None" THEN "done" ELSE "basic_stats"
    /\ UNCHANGED <<cleanVars, fetchVars, recentVars, adf, statsCols, supplyPairs, causalPairs>>

AnalyzeBasicStats ==
    /\ apc = "basic_stats"
    /\ statsCols' = analyze_basic_stats(adf)
    /\ apc' = "supply_chain"
    /\ UNCHANGED <<cleanVars, fetchVars, recentVars, adf, supplyPairs, causalPairs>>

AnalyzeSupplyChainImpact ==
    /\ apc = "supply_chain"
    /\ supplyPairs' = analyze_supply_chain_impact(adf)
    /\ apc' = "labor_market"
    /\ UNCHANGED <<cleanVars, fetchVars, recentVars, adf, statsCols, causalPairs>>

\* prints one correlation
AnalyzeLaborMarket ==
    /\ apc = "labor_market"
    /\ apc' = "gender_gap"
    /\ UNCHANGED <<cleanVars, fetchVars, recentVars, adf, statsCols, supplyPairs, causalPairs>>

AnalyzeGenderGap ==
    /\ apc = "gender_gap"
    /\ adf' = analyze_gender_gap(adf)
    /\ apc' = "structural_change"
    /\ UNCHANGED <<cleanVars, fetchVars, recentVars, statsCols, supplyPairs, causalPairs>>

\* with every row before 2020 post_covid is empty: 'Insufficient data'
AnalyzeStructuralChange ==
    /\ apc = "structural_change"
    /\ apc' = "sensitivity"
    /\ UNCHANGED <<cleanVars, fetchVars, recentVars, adf, statsCols, supplyPairs, causalPairs>>

\* prints a regression, or 'Not enough valid data points'
AnalyzeSensitivity ==
    /\ apc = "sensitivity"
    /\ apc' = "causal_chain"
    /\ UNCHANGED <<cleanVars, fetchVars, recentVars, adf, statsCols, supplyPairs, causalPairs>>

AnalyzeCausalChain ==
    /\ apc = "causal_chain"
    /\ causalPairs' = analyze_causal_chain(adf)
    /\ apc' = "done"
    /\ UNCHANGED <<cleanVars, fetchVars, recentVars, adf, statsCols, supplyPairs>>

NextAnalysis ==
    \/ LoadData \/ AnalyzeBasicStats \/ AnalyzeSupplyChainImpact \/ AnalyzeLaborMarket
    \/ AnalyzeGenderGap \/ AnalyzeStructuralChange \/ AnalyzeSensitivity \/ AnalyzeCausalChain

SpecAnalysis == InitAnalysis /\ [][NextAnalysis]_vars

-----------------------------------------------------------------------------
(* get_data.py: get_source_d_sentiment, the month-by-month archive fetch *)

\* the most 429 answers the archive gives for one month
MaxRetries == 2

\* what a request can come to: 200 with or without documents, 429, 403,
\* another status, an exception of requests.get
Responses == {"200_docs", "200_empty", "429", "403", "other", "exception"}

\* the dates the clock may show when the function starts
NowChoices ==
    {[year |-> StartYear - 1, month |-> 6], [year |-> StartYear, month |-> 1],
     [year |-> StartYear, month |-> 3], [year |-> StartYear, month |-> 12],
     [year |-> StartYear + 1, month |-> 2]}

\* year > current_year or (year == current_year and month > current_month)
IsFuture(y, m) == y > now.year \/ (y = now.year /\ m > now.month)

\* json.dump(all_articles, f) under 'if all_articles'
SaveArticles(n, file) == IF n > 0 THEN [written |-> TRUE, n |-> n] ELSE file

\* what the file holds after the function left by `exit` with n articles:
\* the 403 return and the end of the loops save, the other returns do not
FileAtExit(exit, n, file) ==
    IF exit \in {"forbidden", "end"} THEN SaveArticles(n, file) ELSE file

\* the function returns by `exit` holding n articles
Return(exit, n) ==
    /\ fpc' = "done"
    /\ fexit' = exit
    /\ nytFile' = FileAtExit(exit, n, nytFile)
    /\ UNCHANGED <<fyear, fmonth>>

\* the loops move on from month (fyear, fmonth) holding n articles, up to
\* the next request or the return
NextMonth(n) ==
    IF fmonth < 12
    THEN IF IsFuture(fyear, fmonth + 1) THEN Return("future", n)
         ELSE /\ fmonth' = fmonth + 1
              /\ UNCHANGED <<fyear, fpc, fexit, nytFile>>
    ELSE IF fyear + 1 > now.year THEN Return("end", n)
         ELSE /\ fyear' = fyear + 1 /\ fmonth' = 1
              /\ UNCHANGED <<fpc, fexit, nytFile>>

\* a 429 answer treated like any other failure: the month is given up
AfterResponse_SkipOn429(resp, n) ==
    IF resp = "403" THEN Return("forbidden", n) ELSE NextMonth(n)

\* the branches on resp.status_code: 429 retries the same month, 403 saves
\* and returns, everything else moves to the next month
AfterResponse(resp, n) ==
    CASE resp = "429" -> UNCHANGED <<fyear, fmonth, fpc, fexit, nytFile>>
      [] resp = "403" -> Return("forbidden", n)
      [] OTHER -> NextMonth(n)

InitFetch ==
    /\ CleanIdle
    /\ AnalysisIdle
    /\ RecentIdle
    /\ api_key \in {"", "MY_KEY", "key"}
    /\ now \in NowChoices
    /\ fpc = "start"
    /\ fyear = StartYear /\ fmonth = 1
    /\ all_articles = 0
    /\ retries = 0
    /\ lastReq = NoRequest
    /\ nytFile = NotWritten
    /\ fexit = "none"

\* the key test, the clock, and the way to the first request
StartFetch ==
    /\ fpc = "start"
    /\ IF api_key \in {"", "MY_KEY"} THEN Return("no_key", 0)
       ELSE IF now.year < StartYear THEN Return("end", 0)
       ELSE IF IsFuture(StartYear, 1) THEN Return("future", 0)
       ELSE /\ fpc' = "request"
            /\ UNCHANGED <<fyear, fmonth, fexit, nytFile>>
    /\ UNCHANGED <<cleanVars, analysisVars, recentVars, api_key, now, all_articles, retries, lastReq>>

\* one requests.get for month (fyear, fmonth) and what follows its answer
RequestMonth ==
    /\ fpc = "request"
    /\ \E resp \in Responses :
          /\ resp = "429" => retries < MaxRetries
          /\ lastReq' = [month |-> MonthOf(fyear, fmonth), status |-> resp]
          /\ all_articles' = IF resp = "200_docs" THEN all_articles + 1 ELSE all_articles
          /\ retries' = IF resp = "429" THEN retries + 1 ELSE 0
          /\ AfterResponse(resp, all_articles')
    /\ UNCHANGED <<cleanVars, analysisVars, recentVars, api_key, now>>

NextFetch == StartFetch \/ RequestMonth

SpecFetch == InitFetch /\ [][NextFetch]_vars /\ WF_vars(NextFetch)

-----------------------------------------------------------------------------
(* get_data.py: get_source_d_sentiment_recent, the search in 3-day batches *)

BATCH_SIZE == 3
MAX_PAGES == 2

\* the last day number end_str may name; start_str names day 1 or 2
MaxDay == 8

\* what a page request can come to: there is no 403 branch here
PageResponses == {"200_docs", "200_empty", "429", "other", "exception"}

Min(a, b) == IF a < b THEN a ELSE b

\* the window running BATCH_SIZE days whatever end_date is
BatchWindow_Unclamped(cur, last) ==
    [d_start |-> cur, d_end |-> cur + (BATCH_SIZE - 1), pages |-> {}, p0 |-> "none"]

\* batch_end = current_date + timedelta(days=BATCH_SIZE - 1), cut to end_date;
\* d_start and d_end of the batch, no page requested yet
BatchWindow(cur, last) ==
    [d_start |-> cur, d_end |-> Min(cur + (BATCH_SIZE - 1), last), pages |-> {}, p0 |-> "none"]

\* the while test with current_date = cur after the batches bs, holding n
\* articles: another batch, or the final save
EnterBatch(bs, cur, n) ==
    IF cur <= end_date
    THEN /\ rpc' = "page"
         /\ batches' = Append(bs, BatchWindow(cur, end_date))
         /\ recentFile' = recentFile
    ELSE /\ rpc' = "done"
         /\ batches' = bs
         /\ recentFile' = SaveArticles(n, recentFile)

\* the batch at hand with page pg requested and answered resp
Requested(b, pg, resp) ==
    [b EXCEPT !.pages = @ \cup {pg},
              !.p0 = IF pg = 0 /\ resp # "429" THEN resp ELSE @]

InitRecent ==
    /\ CleanIdle
    /\ AnalysisIdle
    /\ FetchIdle
    /\ start_date \in 1..2
    /\ end_date \in 0..MaxDay
    /\ current_date = start_date
    /\ page = 0
    /\ rpc = "start"
    /\ batches = <<>>
    /\ page_retries = 0
    /\ recent_articles = 0
    /\ recentFile = NotWritten

\* current_date = start_date and the first test of the while loop
StartRecent ==
    /\ rpc = "start"
    /\ EnterBatch(batches, current_date, 0)
    /\ UNCHANGED <<cleanVars, analysisVars, fetchVars, start_date, end_date, current_date,
                   page, page_retries, recent_articles>>

\* one requests.get for page `page` of the batch at hand and what follows
\* its answer: the same page again on 429, else the next page, else the
\* next batch or the final save
RequestPage ==
    /\ rpc = "page"
    /\ \E resp \in PageResponses :
          /\ resp = "429" => page_retries < MaxRetries
          /\ recent_articles' = IF resp = "200_docs" THEN recent_articles + 1
                                ELSE recent_articles
          /\ page_retries' = IF resp = "429" THEN page_retries + 1 ELSE 0
          /\ LET logged == [batches EXCEPT ![Len(batches)] = Requested(@, page, resp)]
             IN  CASE resp = "429" ->
                        /\ batches' = logged
                        /\ UNCHANGED <<current_date, page, rpc, recentFile>>
                   [] resp # "429" /\ page + 1 < MAX_PAGES ->
                        /\ batches' = logged
                        /\ page' = page + 1
                        /\ UNCHANGED <<current_date, rpc, recentFile>>
                   [] OTHER ->
                        /\ current_date' = current_date + BATCH_SIZE
                        /\ page' = 0
                        /\ EnterBatch(logged, current_date', recent_articles')
    /\ UNCHANGED <<cleanVars, analysisVars, fetchVars, start_date, end_date>>

NextRecent == StartRecent \/ RequestPage

SpecRecent == InitRecent /\ [][NextRecent]_vars

-----------------------------------------------------------------------------
(* Properties *)

FinalWritten == "final_dataset.csv" \in written

\* the three later parsers returned (they never return None)
OthersReturned == df2.kind = "DataFrame" /\ df3.kind = "DataFrame" /\ df4.kind = "DataFrame"

\* every parser came back with no data
AllSourcesEmpty ==
    /\ pc \in {"merge", "done"}
    /\ df1.kind \in {"None", "DataFrame"} /\ IsEmpty(df1)
    /\ OthersReturned /\ IsEmpty(df2) /\ IsEmpty(df3) /\ IsEmpty(df4)

\* the tables merge_all_data joins
SourceTables == DfsToMerge(<<df1, df2, df3, df4>>)

Perms(n) == {f \in [1..n -> 1..n] : \A i, j \in 1..n : i # j => f[i] # f[j]}

StrictlyIncreasing(d) == \A i \in 1..(Len(d.rows) - 1) : d.rows[i].date < d.rows[i + 1].date

Observed(d, c) == \E i \in 1..Len(d.rows) : ~IsNaN(d.rows[i].v[c])

\* the columns of the CPI table that carry a series (those with a _YoY partner)
MetricCols(d) == {c \in d.cols : YoYName(c) \in d.cols}

\* (cur - ref) / ref * 100
YoYFormula(cur, ref) == RMul(RDiv(RSub(cur, ref), ref), Num(100))

\* C1: when the CPI file is missing, clean_cpi_data yields "no data" and the
\* pipeline continues: merge_all_data completes and writes a final dataset
\* built from the remaining non-empty tables.
C1_MissingCpiPipelineContinues ==
    (pc = "done" /\ cpiFile.kind = "absent" /\ OthersReturned) =>
        /\ df1 = NoneVal
        /\ DfsToMerge(<<df2, df3, df4>>) # <<>> =>
              /\ outcome = "returned"
              /\ FinalWritten
              /\ finalDf = Interpolate(Window(JoinAll(DfsToMerge(<<df2, df3, df4>>))))

\* C2: when every parser yields an empty / no-data result, no final dataset
\* file is written.
C2_AllEmptyNoFinalFile == AllSourcesEmpty => ~FinalWritten

C2_Witness == pc = "done" /\ AllSourcesEmpty /\ written = {}

\* C3: when every per-source table is empty the run ends in a failure (an
\* exception leaves merge_all_data), which the caller can tell from the
\* outcome of a merge that produced a dataset (a normal return).
C3_AllEmptyIsHardFailure ==
    pc = "done" =>
        /\ AllSourcesEmpty => outcome = "raised"
        /\ (FinalWritten /\ finalDf.rows # <<>>) => outcome = "returned"

C3_Witness == pc = "done" /\ AllSourcesEmpty /\ outcome = "raised" /\ cpiFile.kind = "json"

\* C4: after interpolation, every column with at least one observation in
\* the windowed table has no missing value in any row of the final dataset,
\* and every row lies in [2016-01-01, 2025-12-31].
C4_NoMissingAfterInterpolation ==
    FinalWritten =>
        /\ finalDf.cols = joinedDf.cols /\ Len(finalDf.rows) = Len(joinedDf.rows)
        /\ \A i \in 1..Len(finalDf.rows) :
              StartMonth <= finalDf.rows[i].date /\ finalDf.rows[i].date <= EndMonth
        /\ \A c \in joinedDf.cols :
              Observed(joinedDf, c) =>
                  \A i \in 1..Len(finalDf.rows) : ~IsNaN(finalDf.rows[i].v[c])

\* a column with a leading, an interior and a trailing gap, all filled
C4_Witness ==
    /\ FinalWritten
    /\ \E c \in joinedDf.cols :
          /\ IsNaN(joinedDf.rows[1].v[c])
          /\ IsNaN(joinedDf.rows[Len(joinedDf.rows)].v[c])
          /\ \E a, b, e \in 1..Len(joinedDf.rows) :
                /\ a < b /\ b < e
                /\ ~IsNaN(joinedDf.rows[a].v[c])
                /\ IsNaN(joinedDf.rows[b].v[c])
                /\ ~IsNaN(joinedDf.rows[e].v[c])
          /\ \A i \in 1..Len(finalDf.rows) : ~IsNaN(finalDf.rows[i].v[c])

\* C5: joining the non-empty tables in any permutation gives the same
\* column set, the same month index and the same value in every cell,
\* before and after interpolation.
C5_MergeOrderIndependent ==
    (pc = "done" /\ FinalWritten) =>
        \A f \in Perms(Len(SourceTables)) :
            LET j == Window(JoinAll([i \in 1..Len(SourceTables) |-> SourceTables[f[i]]]))
            IN  j = joinedDf /\ Interpolate(j) = finalDf

C5_Witness ==
    /\ pc = "done" /\ FinalWritten
    /\ Len(SourceTables) = 4
    /\ \A i, j \in 1..4 : i # j => IndexSet(SourceTables[i]) # IndexSet(SourceTables[j])
    /\ \E i, j \in 1..4 :
          i # j /\ IndexSet(SourceTables[i]) \cap IndexSet(SourceTables[j]) # {}

\* C6: in the CPI table every metric column has a _YoY column that is
\* missing in its first 12 rows and, at every row i > 12 where value[i] and
\* value[i-12] are present, equals (value[i] - value[i-12]) / value[i-12] * 100.
C6_YoYByRow ==
    (pc # "cpi" /\ df1.kind = "DataFrame") =>
        /\ MetricCols(df1) # {}
        /\ \A c \in df1.cols : c \in MetricCols(df1) \/ \E b \in MetricCols(df1) : c = YoYName(b)
        /\ \A c \in MetricCols(df1) : \A i \in 1..Len(df1.rows) :
              /\ i <= 12 => IsNaN(df1.rows[i].v[YoYName(c)])
              /\ (i > 12 /\ ~IsNaN(df1.rows[i].v[c]) /\ ~IsNaN(df1.rows[i - 12].v[c])) =>
                    df1.rows[i].v[YoYName(c)] = YoYFormula(df1.rows[i].v[c], df1.rows[i - 12].v[c])

C6_Witness ==
    /\ pc # "cpi" /\ df1.kind = "DataFrame"
    /\ \E c \in MetricCols(df1) : \E i \in 13..Len(df1.rows) :
          /\ ~IsNaN(df1.rows[i].v[c]) /\ ~IsNaN(df1.rows[i - 12].v[c])
          /\ ~IsNaN(df1.rows[i].v[YoYName(c)])
          /\ df1.rows[i].v[YoYName(c)] # Num(0)

\* C7: every defined YoY value at month m is computed against the same
\* metric's value at the month exactly 12 calendar months before m, also
\* when some months are absent from the series.
C7_YoYAgainstTwelveMonthsBefore ==
    (pc # "cpi" /\ df1.kind = "DataFrame") =>
        \A c \in MetricCols(df1) : \A i \in 1..Len(df1.rows) :
            ~IsNaN(df1.rows[i].v[YoYName(c)]) =>
                \E j \in 1..Len(df1.rows) :
                    /\ df1.rows[j].date = df1.rows[i].date - 12
                    /\ ~IsNaN(df1.rows[j].v[c]) /\ ~IsNaN(df1.rows[i].v[c])
                    /\ df1.rows[i].v[YoYName(c)] = YoYFormula(df1.rows[i].v[c], df1.rows[j].v[c])

\* the months of the non-empty source tables that lie in the window
UnionMonths ==
    {m \in UNION {IndexSet(SourceTables[k]) : k \in 1..Len(SourceTables)} :
        StartMonth <= m /\ m <= EndMonth}

DisjointSources ==
    \A i, j \in 1..Len(SourceTables) :
        i # j => IndexSet(SourceTables[i]) \cap IndexSet(SourceTables[j]) = {}

\* C8: the month index of the final dataset is the union of the months of
\* the non-empty source tables, restricted to the window; for sources with
\* disjoint date ranges the row count is the number of months in that
\* union; before interpolation a cell is populated only where its own
\* source had data.
C8_IndexIsUnionOfMonths ==
    (pc = "done" /\ FinalWritten) =>
        /\ IndexSet(joinedDf) = UnionMonths /\ IndexSet(finalDf) = UnionMonths
        /\ DisjointSources => Len(finalDf.rows) = Cardinality(UnionMonths)
        /\ \A i \in 1..Len(joinedDf.rows) : \A c \in joinedDf.cols :
              ~IsNaN(joinedDf.rows[i].v[c]) =>
                  \E k \in 1..Len(SourceTables) :
                      /\ c \in SourceTables[k].cols
                      /\ \E r \in 1..Len(SourceTables[k].rows) :
                            /\ SourceTables[k].rows[r].date = joinedDf.rows[i].date
                            /\ SourceTables[k].rows[r].v[c] = joinedDf.rows[i].v[c]

\* C9: every table a parser returns, and the final dataset, has a month
\* index without duplicates, in strictly increasing order.
C9_IndexUniqueIncreasing ==
    /\ \A d \in {df1, df2, df3, df4} : d.kind = "DataFrame" => StrictlyIncreasing(d)
    /\ StrictlyIncreasing(joinedDf) /\ StrictlyIncreasing(finalDf)

\* an energy row whose first token is no date
BadHeaderRow(row) ==
    row.islist /\ Len(row.toks) > 0 /\ row.toks[1].t \in {"text", "blank", "null"}

WithoutBadHeaderRows(files) ==
    [c \in DOMAIN files |->
        [files[c] EXCEPT !.rows = SelectSeq(@, LAMBDA r : ~BadHeaderRow(r))]]

\* C10: an energy row whose first token cannot be parsed as a date
\* contributes no point, whatever follows it, and the other rows are still
\* processed: the energy table is the one the files give without such rows.
C10_BadHeaderRowContributesNothing ==
    (pc \notin {"cpi", "energy"} /\ df2.kind = "DataFrame") =>
        /\ df2 = clean_energy_data(WithoutBadHeaderRows(energyFiles))
        /\ \A c \in DOMAIN energyFiles :
              ParsedData(energyFiles[c]) = ParsedData(WithoutBadHeaderRows(energyFiles)[c])

\* a bad-header row followed by pairs, and a later row that gave points
C10_Witness ==
    /\ pc \notin {"cpi", "energy"} /\ df2.kind = "DataFrame" /\ ~IsEmpty(df2)
    /\ \E c \in DOMAIN energyFiles : \E i, j \in 1..Len(energyFiles[c].rows) :
          /\ i < j
          /\ BadHeaderRow(energyFiles[c].rows[i]) /\ Len(energyFiles[c].rows[i].toks) >= 3
          /\ ~BadHeaderRow(energyFiles[c].rows[j])
          /\ Observed(df2, c)

\* the complete (date-fragment, price) pairs of a measure file, as
\* <<row, pair>> positions, whose price is a number and whose date, read
\* with the year of the row's header, falls in month m
PairsOfMonth(file, m) ==
    UNION {{<<i, k>> : k \in {k \in 1..(Len(file.rows[i].toks) \div 2) :
                LET toks == file.rows[i].toks
                IN  /\ Len(toks) >= 2 * k + 1
                    /\ toks[1].t = "date"
                    /\ toks[2 * k].t = "frag"
                    /\ toks[2 * k + 1].t = "num"
                    /\ FullDate(toks[1].year, toks[2 * k]) = m}} :
           i \in {i \in 1..Len(file.rows) : file.rows[i].islist}}

RECURSIVE SumPrices(_, _)
SumPrices(file, ps) ==
    IF ps = {} THEN Num(0)
    ELSE LET p == CHOOSE q \in ps : TRUE
         IN  RAdd(file.rows[p[1]].toks[2 * p[2] + 1].val, SumPrices(file, ps \ {p}))

MeanOfMonth(file, m) ==
    IF PairsOfMonth(file, m) = {} THEN NaN
    ELSE RDiv(SumPrices(file, PairsOfMonth(file, m)), Num(Cardinality(PairsOfMonth(file, m))))

\* C11: for each energy measure and month, the value of the energy table is
\* the arithmetic mean of exactly the prices of the complete pairs whose
\* price is a number and whose date falls in that month; every month of
\* the period that has such a pair is a row of the table.
C11_MonthlyMeanOfValidPairs ==
    (pc \notin {"cpi", "energy"} /\ df2.kind = "DataFrame" /\ ~IsEmpty(df2)) =>
        /\ \A i \in 1..Len(df2.rows) : \A c \in df2.cols :
              df2.rows[i].v[c] = MeanOfMonth(energyFiles[c], df2.rows[i].date)
        /\ \A c \in DOMAIN energyFiles : \A m \in StartMonth..EndMonth :
              PairsOfMonth(energyFiles[c], m) # {} =>
                  c \in df2.cols /\ m \in IndexSet(df2)

\* a row with a pair whose price is no number, a later pair of the same row
\* and a trailing unpaired token; the month's value is the mean of the two
\* priced pairs, and the month of 3.801 and 3.750 reads 3.7755
C11_Witness ==
    /\ pc \notin {"cpi", "energy"} /\ df2.kind = "DataFrame"
    /\ \E c \in df2.cols : \E r \in 1..Len(energyFiles[c].rows) :
          LET toks == energyFiles[c].rows[r].toks
          IN  /\ Len(toks) >= 2 /\ Len(toks) % 2 = 0 /\ toks[1].t = "date"
              /\ \E k, j \in 1..(Len(toks) \div 2) :
                    /\ k < j /\ Len(toks) >= 2 * j + 1
                    /\ toks[2 * k + 1].t = "text" /\ toks[2 * j + 1].t = "num"
              /\ \E i \in 1..Len(df2.rows) :
                    /\ df2.rows[i].date = MonthOf(toks[1].year, toks[2].mo)
                    /\ df2.rows[i].v[c] = Rat(9, 2)
    /\ "Gas_Price" \in df2.cols
    /\ \E i \in 1..Len(df2.rows) : df2.rows[i].v["Gas_Price"] = Rat(7551, 2000)

\* no (date, value) point with a date comes out of the measure's file
ZeroValidPoints(file) ==
    \A i \in 1..Len(ParsedData(file)) : ParsedData(file)[i].date = NaT

\* C12: a measure from which zero valid (date, value) points are extracted,
\* the case of parseable prices under unparseable dates included, is never a
\* column of the energy table.
C12_ZeroPointMeasureDropped ==
    (pc \notin {"cpi", "energy"} /\ df2.kind = "DataFrame") =>
        \A c \in DOMAIN energyFiles : ZeroValidPoints(energyFiles[c]) => c \notin df2.cols

\* the measure files without their columns that name no month
WithoutExtraCols(files) ==
    [c \in DOMAIN files |-> [files[c] EXCEPT !.cols = SelectSeq(@, IsMonthName)]]

\* C13: no row of the labor table comes from a column that is not one of
\* Jan..Dec: the table is the one the files give without such columns, every
\* value in it is the cell of its year's row under its month's name, and a
\* measure's long form has one row per file row and month column.
C13_OnlyMonthColumnsGiveRows ==
    (pc \notin {"cpi", "energy", "labor"} /\ df3.kind = "DataFrame") =>
        /\ df3 = clean_labor_data(WithoutExtraCols(laborFiles))
        /\ \A i \in 1..Len(df3.rows) : \A c \in df3.cols :
              \/ IsNaN(df3.rows[i].v[c])
              \/ \E r \in 1..Len(laborFiles[c].rows) :
                    /\ laborFiles[c].rows[r].year = NumTok(Num(df3.rows[i].date \div 12))
                    /\ laborFiles[c].rows[r].cells[MonthNames[(df3.rows[i].date % 12) + 1]]
                           = NumTok(df3.rows[i].v[c])
        /\ \A c \in df3.cols :
              Len(LaborClean(c, laborFiles[c]).rows)
                  = Len(laborFiles[c].rows)
                      * Cardinality({k \in 1..Len(laborFiles[c].cols) :
                                        \E n \in 1..Len(MonthNames) :
                                            MonthNames[n] = laborFiles[c].cols[k]})

\* a measure file with an annual-average column whose months are in the table
C13_Witness ==
    /\ pc \notin {"cpi", "energy", "labor"} /\ df3.kind = "DataFrame"
    /\ \E c \in df3.cols :
          /\ \E k \in 1..Len(laborFiles[c].cols) : laborFiles[c].cols[k] = "Annual"
          /\ Len(laborFiles[c].rows) > 0
          /\ Observed(df3, c)

\* C14: a missing labor measure file is skipped while the measures that can
\* be read are still columns of the table, and the returned table is empty
\* only if every one of the three measures was skipped.
C14_EmptyOnlyIfAllSkipped ==
    (pc \notin {"cpi", "energy", "labor"} /\ df3.kind = "DataFrame") =>
        /\ \A c \in DOMAIN laborFiles :
              c \in df3.cols <=> ~LaborSkipped(laborFiles[c])
        /\ IsEmpty(df3) => \A c \in DOMAIN laborFiles : LaborSkipped(laborFiles[c])

\* the part of C14 that holds: skipping a missing file leaves the others in
C14_MissingFileSkipped ==
    (pc \notin {"cpi", "energy", "labor"} /\ df3.kind = "DataFrame") =>
        \A c \in DOMAIN laborFiles : c \in df3.cols <=> ~LaborSkipped(laborFiles[c])

\* the documents of the collection published in month m, on any day and at
\* any time of day, under whichever date key
DocsOfMonth(files, m) ==
    {i \in 1..Len(AllArticles(files)) :
        AllArticles(files)[i].ts.ok /\ AllArticles(files)[i].ts.month = m}

\* the number of documents among ds whose headline and snippet, read
\* without regard to case, contain the phrase
Mentions(files, ds, kw) ==
    Cardinality({i \in ds :
        ContainsKw(TextOf(AllArticles(files)[i].headline)
                       \o TextOf(AllArticles(files)[i].snippet), kw)})

\* C15: for each keyword phrase and each month of the period, the count of
\* the news table is the number of documents published in that month whose
\* headline + snippet contains the phrase, ignoring case; a month with a
\* document is a row of the table.
C15_CountsCaseInsensitiveSubstring ==
    (pc \notin {"cpi", "energy", "labor", "news"} /\ df4.kind = "DataFrame"
        /\ AllArticles(newsFiles) # <<>>) =>
        \A m \in StartMonth..EndMonth :
            /\ DocsOfMonth(newsFiles, m) # {} => m \in IndexSet(df4)
            /\ \A i \in 1..Len(df4.rows) : \A k \in 1..Len(Keywords) :
                  df4.rows[i].date = m =>
                      df4.rows[i].v[NewsColName(Keywords[k])]
                          = Num(Mentions(newsFiles, DocsOfMonth(newsFiles, m), Keywords[k]))

\* the documents of month m that the date handling keeps
KeptOfMonth(files, m) ==
    {i \in 1..Len(AllArticles(files)) :
        LET ts == DocDate(AllArticles(files)[i], DateColumn(AllArticles(files)))
        IN  ts.ok /\ InPeriod(ts) /\ ts.month = m}

\* the counting of C15 over the documents that are kept: it holds, so the
\* count is wrong only where a document is dropped
C15_CountsOfKeptDocuments ==
    (pc \notin {"cpi", "energy", "labor", "news"} /\ df4.kind = "DataFrame"
        /\ AllArticles(newsFiles) # <<>>) =>
        /\ \A m \in StartMonth..EndMonth :
              KeptOfMonth(newsFiles, m) # {} => m \in IndexSet(df4)
        /\ \A i \in 1..Len(df4.rows) : \A k \in 1..Len(Keywords) :
              df4.rows[i].v[NewsColName(Keywords[k])]
                  = Num(Mentions(newsFiles, KeptOfMonth(newsFiles, df4.rows[i].date),
                                 Keywords[k]))

\* the documents of month m dated, under either key, from the first day of
\* the period up to midnight of its last day
DatedInPeriod(files, m) ==
    {i \in DocsOfMonth(files, m) : InPeriod(AllArticles(files)[i].ts)}

\* C16: a document with a parseable date inside the period is counted
\* whether the date is under 'date' or under 'pub_date', also when the
\* collection has documents of both kinds: its month is a row and the
\* counts of the month include it.
C16_EitherDateKeyCounted ==
    (pc \notin {"cpi", "energy", "labor", "news"} /\ df4.kind = "DataFrame"
        /\ AllArticles(newsFiles) # <<>>) =>
        \A m \in StartMonth..EndMonth :
            DatedInPeriod(newsFiles, m) # {} =>
                /\ m \in IndexSet(df4)
                /\ \A i \in 1..Len(df4.rows) : \A k \in 1..Len(Keywords) :
                      df4.rows[i].date = m =>
                          df4.rows[i].v[NewsColName(Keywords[k])]
                              = Num(Mentions(newsFiles, DatedInPeriod(newsFiles, m), Keywords[k]))

\* every document of the collection carries its date under the same key
OneDateKey(files) ==
    \A i, j \in 1..Len(AllArticles(files)) :
        AllArticles(files)[i].key = AllArticles(files)[j].key

\* C17: a document is kept exactly when its date parses and lies between
\* 2016-01-01 and 2025-12-31, both days included at any time of day: the
\* table has no month outside the period, and in a month of the period it
\* counts every dated document of that month.
C17_WindowIncludesBothEndDays ==
    (pc \notin {"cpi", "energy", "labor", "news"} /\ df4.kind = "DataFrame"
        /\ AllArticles(newsFiles) # <<>> /\ OneDateKey(newsFiles)) =>
        /\ IndexSet(df4) \subseteq StartMonth..EndMonth
        /\ \A i \in 1..Len(df4.rows) : \A k \in 1..Len(Keywords) :
              df4.rows[i].v[NewsColName(Keywords[k])]
                  = Num(Mentions(newsFiles, DocsOfMonth(newsFiles, df4.rows[i].date),
                                 Keywords[k]))
        /\ \A m \in StartMonth..EndMonth :
              DocsOfMonth(newsFiles, m) # {} => m \in IndexSet(df4)

\* no document of the collection has the field (f names it)
FieldAbsentEverywhere(files, f) ==
    /\ AllArticles(files) # <<>>
    /\ \A i \in 1..Len(AllArticles(files)) : AllArticles(files)[i][f].has = "absent"

\* C18: a collection in which no document has a headline, or none has a
\* snippet, is classified on the field that is present: clean_news_data
\* returns its table and raises nothing.
C18_AbsentTextFieldIsEmptyString ==
    (df4.kind # "None"
        /\ (FieldAbsentEverywhere(newsFiles, "headline")
               \/ FieldAbsentEverywhere(newsFiles, "snippet"))
        /\ DateColumn(AllArticles(newsFiles)) # "none") =>
        /\ df4.kind = "DataFrame"
        /\ \A i \in 1..Len(df4.rows) : \A k \in 1..Len(Keywords) :
              df4.rows[i].v[NewsColName(Keywords[k])]
                  = Num(Mentions(newsFiles, KeptOfMonth(newsFiles, df4.rows[i].date),
                                 Keywords[k]))

\* position i of the calls made is the expansion of the archive
IsExtract(ops, i) == ops[i] = "extractall"

\* C19: clean_news_data expands the archive only when no document file is
\* present; the expansion comes before the files are looked up again and
\* read, and the table is made from the expanded files; when neither
\* document files nor the archive exist it returns the empty table, reads
\* nothing and writes no output table.
C19_ArchiveExpandedOnlyWhenNoFile ==
    [][(pc = "news" /\ pc' # "news") =>
          /\ (\E i \in 1..Len(newsOps') : IsExtract(newsOps', i))
                <=> (newsFiles.json = <<>> /\ newsFiles.zip.present)
          /\ \A i \in 1..Len(newsOps') : IsExtract(newsOps', i) =>
                /\ i < Len(newsOps') /\ newsOps'[i + 1] = "glob"
                /\ \A j \in 1..Len(newsOps') : newsOps'[j] = "open" => i + 1 < j
                /\ newsFiles'.json = newsFiles.zip.members
                /\ df4' = clean_news_data(NewsInput(newsFiles.zip.members, FALSE, <<>>))
          /\ (\A i \in 1..Len(newsOps') : ~IsExtract(newsOps', i)) => newsFiles' = newsFiles
          /\ (newsFiles.json = <<>> /\ ~newsFiles.zip.present) =>
                /\ df4' = EmptyDF
                /\ written' = written
                /\ \A j \in 1..Len(newsOps') : newsOps'[j] # "open"]_vars

\* the archive was expanded and its documents made the news table
C19_Witness ==
    /\ \E i \in 1..Len(newsOps) : IsExtract(newsOps, i)
    /\ df4.kind = "DataFrame" /\ ~IsEmpty(df4)
    /\ "clean_news_sentiment.csv" \in written

\* the payload is no valid JSON, or lacks the 'Results' / 'series' nesting
MalformedPayload(file) ==
    file.kind = "invalid_json" \/ (file.kind = "json" /\ ~file.hasResults)

\* C20: a malformed CPI payload is treated as an absent source: the result
\* of clean_cpi_data is the one an absent file gives and no exception
\* leaves the parser.
C20_MalformedPayloadAsAbsent ==
    (pc # "cpi" /\ MalformedPayload(cpiFile)) =>
        /\ df1.kind # "Raise"
        /\ df1 = clean_cpi_data(CpiFile("absent", FALSE, <<>>), fillPad)

\* the part of C20 that holds: valid JSON without the nesting gives the
\* result of an absent file
C20_MissingNestingAsAbsent ==
    (pc # "cpi" /\ cpiFile.kind = "json" /\ ~cpiFile.hasResults) =>
        df1 = clean_cpi_data(CpiFile("absent", FALSE, <<>>), fillPad)

\* a monthly point whose value is no number
BadPoint(it) == IsMonthPeriod(it.period) /\ it.value.t # "num"

\* the payload without its monthly points whose value is no number
WithoutBadPoints(file) ==
    [file EXCEPT !.series =
        [i \in 1..Len(file.series) |->
            [file.series[i] EXCEPT !.data = SelectSeq(@, LAMBDA it : ~BadPoint(it))]]]

\* C21: a CPI point whose value is not numeric is dropped, and the other
\* points of all series still make the output table: the table is the one
\* the payload gives without such points.
C21_BadCpiPointDropped ==
    (pc # "cpi" /\ cpiFile.kind = "json" /\ cpiFile.hasResults
        /\ \E i \in 1..Len(cpiFile.series) : \E j \in 1..Len(cpiFile.series[i].data) :
              BadPoint(cpiFile.series[i].data[j])
        /\ AllRecords(WithoutBadPoints(cpiFile)) # <<>>) =>
        /\ df1.kind = "DataFrame"
        /\ df1 = clean_cpi_data(WithoutBadPoints(cpiFile), fillPad)

\* a matrix row whose Year cell is a plain year number
GoodYearRow(row) == row.year.t = "num" /\ row.year.val[2] = 1 /\ row.year.val[1] >= 1

\* C22: a labor matrix row whose Year cell cannot be turned into a date
\* loses only its own records: the other rows of the same measure are
\* still in the labor table, with the values of their month cells.
C22_BadYearRowDroppedAlone ==
    (pc \notin {"cpi", "energy", "labor"} /\ df3.kind = "DataFrame") =>
        \A c \in DOMAIN laborFiles :
            (laborFiles[c].kind = "csv" /\ laborFiles[c].hasYear
                /\ \E r \in 1..Len(laborFiles[c].rows) : ~GoodYearRow(laborFiles[c].rows[r])) =>
            \A r \in 1..Len(laborFiles[c].rows) : \A k \in 1..Len(MonthNames) :
                LET row == laborFiles[c].rows[r]
                    m == MonthOf(row.year.val[1], k)
                IN  (GoodYearRow(row) /\ m \in StartMonth..EndMonth
                        /\ row.cells[MonthNames[k]].t = "num") =>
                    /\ c \in df3.cols
                    /\ \E i \in 1..Len(df3.rows) :
                          /\ df3.rows[i].date = m
                          /\ df3.rows[i].v[c] = row.cells[MonthNames[k]].val

\* the measure files without the elements of their row lists that are no list
WithoutNonListRows(files) ==
    [c \in DOMAIN files |-> [files[c] EXCEPT !.rows = SelectSeq(@, LAMBDA r : r.islist)]]

\* C23: an element of the row list that is not a list is skipped and never
\* aborts clean_energy_data: the energy table is the one the files give
\* without such elements.
C23_NonListRowSkipped ==
    (df2.kind # "None"
        /\ \E c \in DOMAIN energyFiles : \E i \in 1..Len(energyFiles[c].rows) :
              ~energyFiles[c].rows[i].islist) =>
        /\ df2.kind = "DataFrame"
        /\ df2 = clean_energy_data(WithoutNonListRows(energyFiles))

\* the part of C23 that holds: an element that is no list but has a length
\* (a string) is skipped
C23_StringRowSkipped ==
    (df2.kind # "None"
        /\ \A c \in DOMAIN energyFiles : \A i \in 1..Len(energyFiles[c].rows) :
              energyFiles[c].rows[i].sized) =>
        /\ df2.kind = "DataFrame"
        /\ df2 = clean_energy_data(WithoutNonListRows(energyFiles))

\* the positions of a column of the windowed table that hold an observation
ObsAt(c) == {j \in 1..Len(joinedDf.rows) : ~IsNaN(joinedDf.rows[j].v[c])}

\* the value at row i on the straight line through the observations at
\* rows p and q
OnLine(c, p, q, i) ==
    RAdd(joinedDf.rows[p].v[c],
         RMul(RSub(joinedDf.rows[q].v[c], joinedDf.rows[p].v[c]), Rat(i - p, q - p)))

\* C24: in the final dataset a leading or trailing missing value of a
\* column lies on the line through the two nearest observations of the
\* column (linear extrapolation).
C24_EdgesExtrapolated ==
    FinalWritten =>
        \A c \in joinedDf.cols : \A i \in 1..Len(joinedDf.rows) : \A p, q \in ObsAt(c) :
            /\ (/\ \A j \in ObsAt(c) : i < j
                /\ p < q
                /\ \A j \in ObsAt(c) : j = p \/ q <= j) =>
                    finalDf.rows[i].v[c] = OnLine(c, p, q, i)
            /\ (/\ \A j \in ObsAt(c) : j < i
                /\ p < q
                /\ \A j \in ObsAt(c) : j = q \/ j <= p) =>
                    finalDf.rows[i].v[c] = OnLine(c, p, q, i)

\* what the edges hold instead: the nearest observation of the column
C24_EdgesRepeatNearest ==
    FinalWritten =>
        \A c \in joinedDf.cols : \A i \in 1..Len(joinedDf.rows) : \A p \in ObsAt(c) :
            /\ (\A j \in ObsAt(c) : i < j /\ p <= j) => finalDf.rows[i].v[c] = joinedDf.rows[p].v[c]
            /\ (\A j \in ObsAt(c) : j < i /\ j <= p) => finalDf.rows[i].v[c] = joinedDf.rows[p].v[c]

\* how many rows after its leader observation each pair's follower
\* observation lies
Offsets(ps) == {p[2] - p[1] : p \in ps}

\* C25 as stated: for the same lag k >= 1 the two analysis functions pair
\* a leader observation with follower observations at different offsets.
C25_LagConventionsDiffer ==
    apc = "done" =>
        \A i \in 1..Len(supplyPairs) : \A j \in 1..Len(causalPairs) :
            (/\ supplyPairs[i].lag = causalPairs[j].lag
             /\ supplyPairs[i].pairs # {} /\ causalPairs[j].pairs # {}) =>
                Offsets(supplyPairs[i].pairs) # Offsets(causalPairs[j].pairs)

\* C25, amended: for every lag k both analyze_supply_chain_impact and
\* analyze_causal_chain pair the leader's observation of row t with the
\* follower's observation of row t + k, and with fully observed columns
\* they correlate exactly the pairs (t, t + k), t = 1 .. n - k.
C25_LagConventionsAgree ==
    apc = "done" =>
        /\ \A i \in 1..Len(supplyPairs) :
              /\ \A p \in supplyPairs[i].pairs : p[2] = p[1] + supplyPairs[i].lag
              /\ "Diesel_Price" \in statsCols /\ Observed(adf, "Diesel_Price") =>
                    supplyPairs[i].pairs
                        = {<<t, t + supplyPairs[i].lag>> :
                              t \in 1..(Len(adf.rows) - supplyPairs[i].lag)}
        /\ \A j \in 1..Len(causalPairs) :
              /\ \A p \in causalPairs[j].pairs : p[2] = p[1] + causalPairs[j].lag
              /\ causalPairs[j].pairs
                    = {<<t, t + causalPairs[j].lag>> :
                          t \in 1..(Len(adf.rows) - causalPairs[j].lag)}

\* both functions ran on the same dataset and correlated pairs at lag 2
C25_Witness ==
    /\ apc = "done"
    /\ \E i \in 1..Len(supplyPairs) : \E j \in 1..Len(causalPairs) :
          /\ supplyPairs[i].lag = 2 /\ causalPairs[j].lag = 2
          /\ supplyPairs[i].pairs # {} /\ causalPairs[j].pairs # {}
          /\ supplyPairs[i].pairs = causalPairs[j].pairs

\* the news metrics among target_cols
NewsTargets ==
    {target_cols[i] : i \in 1..Len(target_cols)}
        \ (EnergyCols \cup LaborCols
             \cup {"CPI_Total_YoY", "CPI_Food_YoY", "CPI_Energy_YoY", "CPI_Shelter_YoY"})

\* C29: every news column that analyze_basic_stats targets is a column
\* clean_news_data produces, so on a dataset with all the news columns no
\* targeted news metric is missing from the statistics.
C29_TargetedNewsColumnsProduced ==
    (apc \notin {"idle", "load", "basic_stats"} /\ NewsCols \subseteq adf.cols) =>
        /\ NewsTargets \subseteq NewsCols
        /\ NewsTargets \subseteq statsCols

\* the targeted news metrics other than the high-price count are described
C29_OtherNewsTargetsDescribed ==
    (apc \notin {"idle", "load", "basic_stats"} /\ NewsCols \subseteq adf.cols) =>
        /\ Cardinality(NewsTargets) = 6
        /\ NewsTargets \ {"News_Count_HighPrice"} \subseteq statsCols

\* C26: whenever get_source_d_sentiment has returned holding at least one
\* article, source_d_nyt_text_raw.json has been written with the collected
\* articles, whichever exit was taken.
C26_ArticlesSavedOnEveryExit ==
    (fpc = "done" /\ all_articles > 0) =>
        nytFile = [written |-> TRUE, n |-> all_articles]

\* the exits of C26 that do save: the 403 return and the end of the loops
C26_SavedOnForbiddenAndEnd ==
    (fpc = "done" /\ all_articles > 0 /\ fexit \in {"forbidden", "end"}) =>
        nytFile = [written |-> TRUE, n |-> all_articles]

\* what C27 says of one request: it is for the loop's month; after a 429
\* the same month is requested again; after any other answer the month
\* requested is the next one, none skipped; nothing is requested after a 403
RequestInOrder ==
    fpc = "request" =>
        /\ lastReq'.month = MonthOf(fyear, fmonth)
        /\ lastReq.status # "403"
        /\ lastReq.status = "none" => lastReq'.month = StartMonth
        /\ lastReq.status = "429" => lastReq'.month = lastReq.month
        /\ lastReq.status \notin {"none", "429"} => lastReq'.month = lastReq.month + 1

\* C27: a 429 answer never skips a month (the same month is requested
\* until another answer comes), months are requested in strictly
\* increasing order, nothing is requested after a 403, and the function
\* returns when every month gets an answer other than 429 in the end.
C27_RateLimitRetriesSameMonth ==
    [][RequestInOrder]_vars /\ <>(fpc = "done")

\* a month past the first was answered 429 as often as the archive does,
\* and is still the month to request
C27_Witness ==
    /\ fpc = "request"
    /\ lastReq.status = "429" /\ retries = MaxRetries
    /\ lastReq.month = MonthOf(fyear, fmonth) /\ lastReq.month > StartMonth

\* the days of batch window b
DaysOf(b) == b.d_start .. b.d_end

\* the batches whose pages are over: all but the one at hand
FinishedBatches ==
    IF rpc = "done" THEN DOMAIN batches ELSE 1 .. (Len(batches) - 1)

\* C28: the batch windows partition the requested range (every day from
\* start_str to end_str in exactly one window, no window past end_str),
\* and both pages 0 and 1 of every batch are requested, also when page 0
\* ended in an error other than 429.
C28_WindowsPartitionRange ==
    rpc \in {"page", "done"} =>
        /\ \A i \in DOMAIN batches :
              /\ start_date <= batches[i].d_start
              /\ batches[i].d_start <= batches[i].d_end
              /\ batches[i].d_end <= end_date
        /\ \A i, j \in DOMAIN batches : i # j => DaysOf(batches[i]) \cap DaysOf(batches[j]) = {}
        /\ rpc = "done" =>
              \A day \in start_date .. end_date :
                 Cardinality({i \in DOMAIN batches : day \in DaysOf(batches[i])}) = 1
        /\ \A i \in FinishedBatches : batches[i].pages = 0 .. (MAX_PAGES - 1)

\* a finished run of several batches, the last one cut short by end_str,
\* one of them with page 0 ended by an error and page 1 requested still
C28_Witness ==
    /\ rpc = "done"
    /\ Len(batches) >= 2
    /\ batches[Len(batches)].d_end - batches[Len(batches)].d_start < BATCH_SIZE - 1
    /\ \E i \in DOMAIN batches :
          batches[i].p0 \in {"other", "exception"} /\ 1 \in batches[i].pages

====
